---------------------------- MODULE Spec2Model ----------------------------
(***************************************************************************)
(* A model of the ELU importer (src/import_elu.py): the header check of    *)
(* load_from_path, the driver load_elu, the material/texture decoders and  *)
(* the two mesh decoders, over a byte cursor whose reads can run short.    *)
(*                                                                         *)
(* The file is an input: every field value is drawn from a small set when  *)
(* the decoder reads it, and so is the place where the data ends.  Names   *)
(* are sequences of byte values.  bpy.data (meshes, objects, materials,    *)
(* textures) is the scene sink the decoders write to as they go.           *)
(***************************************************************************)
EXTENDS Integers, Sequences, FiniteSets, TLC

VARIABLES
    input_class,        \* the family of input files explored (set by Init)
    pc,                 \* the statement the importer is at
    result,             \* what load_from_path returned, or that it raised
    error,              \* the logged error / the exception raised
    warnings,           \* logging.warning calls: the elu.tell() of each
    pos,                \* elu.tell()
    eof,                \* a read or seek asked for more bytes than remained
    magic, version,     \* the header fields
    material_count, mesh_count,
    loop_i,             \* load_elu's loop index (materials, then meshes)
    loc,                \* the locals of the mesh decoder that is running
    last_count,         \* the most recent count field: where it began, its raw value
    data_meshes,        \* bpy.data.meshes, in creation order
    data_objects,       \* bpy.data.objects, in creation order
    scene_objects,      \* scene.objects: names, in link order
    names,              \* load_elu's names list
    bip_mesh_objects,   \* load_elu's list of bone objects (names)
    z_mesh_objects,     \* load_elu's list of regular mesh objects (names)
    edit_bones,         \* armature.edit_bones, in creation order
    data_materials,     \* bpy.data.materials, in creation order
    data_textures,      \* bpy.data.textures, in creation order
    data_images         \* bpy.data.images: names, in creation order

cursor == <<pos, eof>>
header == <<magic, version, material_count, mesh_count>>
sink   == <<data_meshes, data_objects, scene_objects, edit_bones>>
library == <<data_materials, data_textures, data_images>>
driver == <<loop_i, names, bip_mesh_objects, z_mesh_objects>>
vars   == <<input_class, pc, result, error, warnings, pos, eof, magic, version,
            material_count, mesh_count, loop_i, loc, last_count, data_meshes,
            data_objects, scene_objects, names, bip_mesh_objects, z_mesh_objects,
            edit_bones, data_materials, data_textures, data_images>>

---------------------------------------------------------------------------
(* Program constants *)

ELU_MAGIC == 17297504

x11 == 17
x5001 == 20481
x5002 == 20482
x5003 == 20483
x5004 == 20484
x5005 == 20485
x5006 == 20486
x5007 == 20487
x5008 == 20488
x500A == 20490
x500B == 20491
x500C == 20492
x500E == 20494
x500F == 20495
x5010 == 20496
x5011 == 20497

ELU_VERSIONS ==
    {x11, x5001, x5002, x5003, x5004, x5005, x5006, x5007,
     x5008, x500A, x500B, x500C, x500E, x500F, x5010, x5011}

NAME_LENGTH == 40
PATH_LENGTH == 256
FACE_VERTEX_COUNT == 3
BONE_INFLUENCE_COUNT == 4
SMOOTH_GROUP_COUNT == 32

\* 0xFFFFFFFF, written as the same 32 bits read as a signed integer (the
\* model checker's integers are 32-bit signed).
NO_PARENT_INDEX == -1

---------------------------------------------------------------------------
(* Bounds of the explored inputs *)

MaxMeshes == 2          \* mesh_count of the header
MaxCount == 1           \* entries of a pool or table
MaxTail == 3            \* bytes of a probed name after its prefix
MaxMaterials == 2       \* material_count of the header

\* u32 values that are no version tag (0x5009, 0x500D and 0x5012 lie between
\* and right after the tags).
OtherVersions == {0, 20489, 20493, 20498}

FormatAVersions == {v \in ELU_VERSIONS : v < x5008}
FormatBVersions == {v \in ELU_VERSIONS : v >= x5008}

Magics == {ELU_MAGIC, 0, ELU_MAGIC + 1}

(* The input classes.  Each explores the files that vary one part of the     *)
(* format and keep the rest minimal:                                         *)
(*   "header"   any magic and version, no material and no mesh entry;        *)
(*   "formatB"  one Format B mesh entry, every pool and table populated;     *)
(*   "blend"    one Format B mesh entry, its blend-vertex table varied;      *)
(*   "scene"    Format B files of several named and parented mesh entries;   *)
(*   "formatA"  one Format A mesh entry;                                     *)
(*   "materials" Format A files of material entries and no mesh entry;       *)
(*   "vertices" one Format B mesh entry, the fields of its indexed vertices   *)
(*              varied;                                                      *)
(*   "skeleton" Format B files of MaxMeshes + 1 mesh entries named "A", "B"   *)
(*              or "C", each a root or a child of "A";                       *)
(*   "phases"   files of both formats with material and mesh entries, each   *)
(*              entry of one shape.                                          *)

HeaderVersions ==
    CASE input_class = "header"  -> ELU_VERSIONS \cup OtherVersions
      [] input_class = "formatA" -> {x11, x5001, x5002, x5004, x5005}
      [] input_class = "blend"   -> {x500C, x500E, x5011}
      [] input_class \in {"scene", "skeleton"} -> {x500A, x5011}
      [] input_class = "vertices" -> {x500C, x500E, x5011}
      [] input_class = "materials" -> FormatAVersions \cup {x5008}
      [] input_class = "phases"  -> {x5007, x5008}
      [] OTHER -> FormatBVersions

MaterialCounts ==
    IF input_class \in {"materials", "phases"} THEN 0..MaxMaterials ELSE {0}
MeshCounts ==
    CASE input_class \in {"header", "materials"} -> {0}
      [] input_class \in {"scene", "phases"} -> 0..MaxMeshes
      [] input_class = "skeleton" -> {MaxMeshes + 1}
      [] OTHER -> {1}

\* A material entry: index0, diffuse color, specular color, specular power;
\* two entries of one index0 that differ in every other field, and a third.
MaterialFields ==
    { <<0, <<1, 0, 0, 1>>, <<0, 0, 0, 1>>, 1>> }
    \cup (IF input_class = "phases" THEN {}
          ELSE { <<0, <<0, 1, 0, 0>>, <<1, 1, 1, 0>>, 2>>,
                 <<1, <<1, 0, 0, 1>>, <<0, 0, 0, 1>>, 1>> })
\* The two name blocks of a texture, before their NUL padding: "a.b", "c",
\* and a byte that is not ASCII in either.
TextureRawNames ==
    { << <<97, 46, 98>>, <<99>> >> }
    \cup (IF input_class = "phases" THEN {}
          ELSE { << <<99>>, <<99>> >>, << <<200>>, <<99>> >>,
                 << <<99>>, <<200>> >> })
\* The bytes left where two name blocks of n bytes begin, out of 0..2n: none,
\* a part of the first block, the first block and a part of the second, both.
TextureLengths(n) == {0, 2, n - 1, n, n + 2, 2 * n - 1, 2 * n}
\* Which of the three candidate files of a texture exists: none, or the first.
FoundFiles == IF input_class = "phases" THEN {0} ELSE {0, 1}

Counts == 0..MaxCount
\* The face count of a Format A entry
FaceCounts == IF input_class = "phases" THEN {1} ELSE Counts
\* Reserved pools and reserved counts
ReservedCounts == IF input_class = "formatB" THEN Counts ELSE {0}
\* Positions, texcoords, indexed vertices: a pool is empty or not.  In "scene"
\* an entry has one texcoord and one indexed vertex for its faces to use.
PositionCounts ==
    CASE input_class = "blend"  -> {0}
      [] input_class = "phases" -> {1}
      [] OTHER -> {0, 1}
TexcoordCounts ==
    CASE input_class = "blend" -> {0}
      [] input_class \in {"scene", "phases", "vertices", "skeleton"} -> {1}
      [] OTHER -> {0, 1}
VertexCounts == TexcoordCounts
\* The count of the grouping table, which up to 0x500A is the face count.
GroupCounts(v) ==
    CASE input_class = "blend" -> {0}
      [] input_class \in {"scene", "vertices"} -> IF v > x500A THEN {0} ELSE {0, 1}
      [] input_class = "phases" -> {1}
      [] input_class = "skeleton" -> IF v > x500A THEN {0} ELSE {1}
      [] OTHER -> {0, 1}
\* What the face-index count field may hold: no face, less than a face, a face.
FaceIndexCounts ==
    CASE input_class = "blend" -> {0}
      [] input_class \in {"scene", "vertices"} -> {0, 3}
      [] input_class \in {"phases", "skeleton"} -> {3}
      [] OTHER -> {0, 2, 3}
\* The three table indices of a face: the first entry, or (in "formatB") one
\* past the first.
FaceCorners ==
    {<<0, 0, 0>>} \cup (IF input_class = "formatB" THEN {<<0, 0, 1>>} ELSE {})
\* The five fields of an indexed-vertex entry, in file order; in "vertices"
\* the third or the fifth may be 5, past the one texcoord of the entry.
VertexFields ==
    {<<0, 0, 0, 0, 0>>}
    \cup (IF input_class = "vertices" THEN {<<0, 0, 5, 0, 0>>, <<0, 0, 0, 0, 5>>}
          ELSE {})

\* Blend vertices, their influences (a blend vertex needs two influences for
\* one (bone, weight) pair to repeat), and the (bone index, weight) pairs.
\* Weights (floats in the file) are in tenths.
BlendCounts ==
    CASE input_class \in {"blend", "formatB"} -> Counts
      [] OTHER -> {0}
InfluenceCounts == IF input_class = "blend" THEN 0..(MaxCount + 1) ELSE {1}
Influences ==
    IF input_class = "blend"
    THEN {<<0, 0>>, <<0, 6>>, <<1, 6>>, <<0, 3>>, <<1, -1>>}
    ELSE {<<0, 6>>}

\* Format A ("formatA"): the records of a face are three vertex indices and
\* three (u, v, w) texture coordinates; floats in the file are small integers
\* here, which binary32 holds exactly.
FaceIndices == {<<1, 2, 0>>} \cup (IF input_class = "phases" THEN {} ELSE {<<0, 1, 2>>})
FaceUVWs ==
    {<< <<0, 0, 9>>, <<1, 0, 9>>, <<0, 1, 9>> >>}
    \cup (IF input_class = "phases" THEN {}
          ELSE {<< <<2, 3, 0>>, <<2, 3, 0>>, <<5, -1, 0>> >>})
\* The smoothing-group index of a face: the last group, one past the last.
SmoothGroupIndices ==
    {SMOOTH_GROUP_COUNT - 1}
    \cup (IF input_class = "phases" THEN {} ELSE {SMOOTH_GROUP_COUNT})
\* Vertex colours (hold, collision, weight)
ColorCounts == IF input_class = "phases" THEN {0} ELSE {0, 1}
Colors == {<<1, 0, 1>>} \cup (IF input_class = "phases" THEN {} ELSE {<<0, 1, 0>>})
MaterialIndices == {0}
\* Bone-influence groups: four name slots and four weight slots.
\* 66 is "B", 67 is "C".
WeightGroupCounts == IF input_class = "phases" THEN {1} ELSE {0, 1}
WeightGroups ==
    { << << <<66>>, <<>>, <<>>, <<>> >>, <<1, 0, 0, 0>> >> }
    \cup (IF input_class = "phases" THEN {}
          ELSE { << << <<>>, <<66>>, <<>>, <<>> >>, <<1, 0, 0, 0>> >>,
                 << << <<66>>, <<>>, <<>>, <<>> >>, <<1, 1, 0, 0>> >> })

---------------------------------------------------------------------------
(* Names: sequences of byte values *)

NUL == 0

\* The name blocks of mesh entries: "A", "B", "A" with a NUL after it, the
\* byte 0xC8 (not ASCII) and, in Format A files, "Bip01" and "A", a NUL, "B".
MeshRawNames ==
    CASE input_class = "scene"   -> { <<65>>, <<66>> }
      [] input_class = "skeleton" -> { <<65>>, <<66>>, <<67>> }
      [] input_class = "formatB" -> { <<65>>, <<65, NUL>>, <<200>> }
      [] input_class = "formatA" -> { <<65>>, <<66, 105, 112, 48, 49>>, <<200>>,
                                      <<65, NUL, 66>> }
      [] input_class = "phases"  -> { <<65>>, <<66, 105, 112, 48, 49>> }
      [] OTHER -> { <<65>> }

\* The parent name blocks: no name (in "scene" a single NUL), or "A".
ParentRawNames ==
    CASE input_class \in {"scene", "skeleton"} -> { <<NUL>>, <<65>> }
      [] input_class = "formatA" -> { <<>>, <<65>> }
      [] OTHER -> { <<>> }

\* No object (Python's None), where a name is expected.
None == << -1 >>

\* bytes.rstrip(b'\0') as the code applies it after decoding: only the NULs at
\* the end are removed.
rstrip(s) ==
    SubSeq(s, 1, CHOOSE k \in 0..Len(s) :
                     /\ k = 0 \/ s[k] # NUL
                     /\ \A h \in (k + 1)..Len(s) : s[h] = NUL)

\* str(name, encoding='ascii') raises UnicodeDecodeError on a byte >= 0x80.
IsAscii(s) == \A i \in 1..Len(s) : s[i] < 128

IsDigit(c) == c \in 48..57
IsAlpha(c) == c \in (65..90) \cup (97..122)
IsSpace(c) == c \in (9..13) \cup (28..32)
IsSide(c)  == c \in {76, 82}

\* The end (exclusive) of the longest run of bytes of one class from index i:
\* the regex's quantifiers are greedy and never have to give a byte back.
DigitsEnd(s, i) ==
    CHOOSE j \in i..(Len(s) + 1) :
        /\ \A k \in i..(j - 1) : IsDigit(s[k])
        /\ (j = Len(s) + 1 \/ ~IsDigit(s[j]))
AlphaEnd(s, i) ==
    CHOOSE j \in i..(Len(s) + 1) :
        /\ \A k \in i..(j - 1) : IsAlpha(s[k])
        /\ (j = Len(s) + 1 \/ ~IsAlpha(s[j]))
SpaceEnd(s, i) ==
    CHOOSE j \in i..(Len(s) + 1) :
        /\ \A k \in i..(j - 1) : IsSpace(s[k])
        /\ (j = Len(s) + 1 \/ ~IsSpace(s[j]))

RECURSIVE IntOf(_)
IntOf(d) == IF d = <<>> THEN 0 ELSE 10 * IntOf(SubSeq(d, 1, Len(d) - 1)) + (d[Len(d)] - 48)

\* '{index:0>3}'
RECURSIVE Pad3(_)
Pad3(d) == IF Len(d) >= 3 THEN d ELSE Pad3(<<48>> \o d)

\* ELU_BIP_PROGRAM.match: the groups of the match, or matched = FALSE.
BipMatch(s) ==
    IF ~(Len(s) >= 3 /\ SubSeq(s, 1, 3) = <<66, 105, 112>>)
    THEN [matched |-> FALSE]
    ELSE
    LET d  == DigitsEnd(s, 4)
        s1 == SpaceEnd(s, d)
        hasSide == s1 <= Len(s) /\ IsSide(s[s1])
        a  == IF hasSide THEN s1 + 1 ELSE s1
        s2 == SpaceEnd(s, a)
        n  == AlphaEnd(s, s2)
        x  == DigitsEnd(s, n)
        b  == AlphaEnd(s, x)
        \* '$' matches at the end and before a newline that ends the string
        atEnd == b = Len(s) + 1 \/ (b = Len(s) /\ s[b] = 10)
    IN  IF d - 4 >= 2 /\ atEnd
        THEN [matched |-> TRUE,
              side  |-> IF hasSide THEN <<s[s1]>> ELSE <<>>,
              name  |-> SubSeq(s, s2, n - 1),
              index |-> SubSeq(s, n, x - 1),
              nub   |-> SubSeq(s, x, b - 1),
              rest  |-> SubSeq(s, b, Len(s))]
        ELSE [matched |-> FALSE]

\* A variant whose replacement text keeps the prefix "Bip01".
BlendKeepingPrefix(m) == <<66, 105, 112, 48, 49>> \o m.name

\* blend(match): the replacement text.
blend(m) ==
    (IF m.name # <<>> THEN <<90, 66, 105, 112, 95>> \o m.name
                      ELSE <<90, 66, 105, 112, 95, 82, 111, 111, 116>>)
    \o (IF m.nub # <<>> THEN <<95>> \o m.nub ELSE <<>>)
    \o (IF m.side # <<>> THEN <<46>> \o m.side ELSE <<>>)
    \o (IF m.index = <<>> THEN <<>>
        ELSE IF Len(m.index) > 1 /\ IntOf(m.index) < 10
             THEN <<46, 49>> \o Pad3(m.index)
        ELSE IF IntOf(m.index) > 0 THEN <<46>> \o Pad3(m.index)
        ELSE <<>>)

\* elu_to_blender_name(name): <<new name, number of substitutions>>.
elu_to_blender_name(name) ==
    LET m == BipMatch(name)
    IN  IF m.matched THEN <<blend(m) \o m.rest, 1>> ELSE <<name, 0>>

---------------------------------------------------------------------------
(* The byte cursor: io.open(path, 'r+b') with read and seek(n, SEEK_CUR) *)

\* struct.unpack(fmt, elu.read(n)): raises struct.error on a short read.
U(n) == <<"unpack", n>>
\* elu.read(n) used as bytes: a short read returns what is left.
R(n) == <<"read", n>>
\* elu.seek(n, os.SEEK_CUR): moves the position, past the end too.
S(n) == <<"seek", n>>

Rep(op, k) == [i \in 1..k |-> op]

RECURSIVE PlanLen(_)
PlanLen(plan) == IF plan = <<>> THEN 0 ELSE Head(plan)[2] + PlanLen(Tail(plan))

Before(plan, j) == PlanLen(SubSeq(plan, 1, j - 1))

\* Where the data may end while a plan of cursor operations runs: at the start
\* of any operation that wants bytes, and anywhere inside a raw read.
Cuts(plan) ==
    {Before(plan, j) : j \in {k \in 1..Len(plan) : plan[k][2] > 0}}
    \cup UNION {{Before(plan, j) + k : k \in 1..(plan[j][2] - 1)} :
                  j \in {k \in 1..Len(plan) : plan[k][1] = "read"}}

\* The bytes left from pos on: none once the end was met, else either enough
\* for the plan or a number that ends the data inside it.
Avail(plan) == IF eof THEN {0} ELSE Cuts(plan) \cup {PlanLen(plan)}

RECURSIVE RunFrom(_, _, _)
RunFrom(plan, avail, st) ==
    IF plan = <<>> \/ st.raised THEN st
    ELSE
    LET op   == Head(plan)
        n    == op[2]
        have == IF avail >= n THEN n ELSE avail
    IN  CASE op[1] = "unpack" ->
               IF have = n
               THEN RunFrom(Tail(plan), avail - n,
                            [st EXCEPT !.pos = @ + n, !.got = Append(@, n)])
               ELSE [st EXCEPT !.pos = @ + have, !.eof = TRUE, !.raised = TRUE]
          [] op[1] = "read" ->
               RunFrom(Tail(plan), avail - have,
                       [st EXCEPT !.pos = @ + have, !.eof = @ \/ have < n,
                                  !.got = Append(@, have)])
          [] OTHER ->
               RunFrom(Tail(plan), IF avail >= n THEN avail - n ELSE 0,
                       [st EXCEPT !.pos = @ + n, !.eof = @ \/ avail < n,
                                  !.got = Append(@, have)])

Run(plan, avail) ==
    RunFrom(plan, avail, [pos |-> pos, eof |-> eof, raised |-> FALSE, got |-> <<>>])

---------------------------------------------------------------------------
(* The locals of a mesh decoder *)

NoLocals ==
    [ name |-> <<>>, parent_name |-> <<>>,
      mesh_name |-> <<>>, parent_mesh_name |-> <<>>, is_bip |-> 0,
      parent_mesh_index |-> 0,
      vertex_positions |-> 0,       \* len(vertex_positions)
      vertex_texcoords |-> 0,       \* len(vertex_texcoords)
      face_count |-> 0,
      blend_vertex_count |-> 0,
      i |-> 0,                      \* the index of the running table loop
      j |-> 0,                      \* entries left of the inner loop
      blend_table |-> <<>>,         \* the influences read, per blend vertex
      bone_influences |-> <<>>,     \* bone index -> weight -> vertex list
      vertex_count |-> 0,
      vertex_indices |-> <<>>,
      vertex_fields |-> <<>>,       \* the fields of each entry as they were read
      group |-> <<>>,               \* the name blocks and weights of a group, as read
      faces |-> <<>>,
      vertices |-> 0,               \* len(vertices)
      face_records |-> <<>>,        \* the face records read (history)
      uv_faces |-> <<>>,
      smooth_groups |-> <<>>,       \* group index -> vertex list, where not empty
      vertex_colors |-> <<>>,
      material_index |-> 0,
      bone_influence_count |-> 0,
      weight_groups |-> <<>>,       \* bone name -> weight -> vertex list
      material |-> <<>>, found |-> FALSE,            \* the name of the material of the entry
      texture |-> <<>> ]            \* the name of the texture of the entry

\* An exception leaves load_from_path: the with-block closes the file and the
\* locals are gone; what was written to bpy.data stays.
Raise(kind, out) ==
    /\ pc' = "done"
    /\ result' = "RAISED"
    /\ error' = kind
    /\ pos' = out.pos
    /\ eof' = out.eof
    /\ loc' = NoLocals
    /\ UNCHANGED <<input_class, library, warnings, header, driver, sink, last_count>>

\* The first statement of the decoder of one mesh entry.
FormatBFrom5007(v) == IF v < x5007 THEN "a_names" ELSE "b_names"

load_elu_mesh(v) == IF v < x5008 THEN "a_names" ELSE "b_names"

---------------------------------------------------------------------------
(* load_from_path and load_elu *)

\* Variants of the header test that drop one of its two conditions.
NotSupportedMagicOnly(mg, v) == mg # ELU_MAGIC
NotSupportedVersionOnly(mg, v) == v \notin ELU_VERSIONS

\* magic != ELU_MAGIC or version not in ELU_VERSIONS
NotSupported(mg, v) == mg # ELU_MAGIC \/ v \notin ELU_VERSIONS

load_from_path ==
    /\ pc = "load_from_path"
    /\ \E mg \in Magics, v \in HeaderVersions, avail \in Avail(<<U(8)>>) :
         LET out == Run(<<U(8)>>, avail)
         IN  IF out.raised THEN Raise("struct.error", out)
             ELSE /\ magic' = mg
                  /\ version' = v
                  /\ pos' = out.pos
                  /\ eof' = out.eof
                  /\ IF NotSupported(mg, v)
                     THEN /\ pc' = "done"
                          /\ result' = "CANCELLED"
                          /\ error' = "File not supported"
                     ELSE /\ pc' = "load_elu"
                          /\ UNCHANGED <<result, error>>
                  /\ UNCHANGED <<input_class, library, warnings, material_count, mesh_count,
                                 driver, loc, last_count, sink>>

\* After the material section, or after a mesh entry: the next mesh entry, or
\* the code after the loop.
AfterMaterials(v, n) == IF n > 0 THEN load_elu_mesh(v) ELSE "resolve"

load_elu ==
    /\ pc = "load_elu"
    /\ \E mc \in MaterialCounts, n \in MeshCounts, avail \in Avail(<<U(8)>>) :
         LET out == Run(<<U(8)>>, avail)
         IN  IF out.raised THEN Raise("struct.error", out)
             ELSE /\ material_count' = mc
                  /\ mesh_count' = n
                  /\ pos' = out.pos
                  /\ eof' = out.eof
                  /\ loop_i' = 0
                  /\ pc' = IF mc > 0 /\ version < x5008
                           THEN "material" ELSE AfterMaterials(version, n)
                  /\ UNCHANGED <<input_class, library, result, error, warnings, magic, version,
                                 names, bip_mesh_objects, z_mesh_objects, loc, last_count, sink>>

---------------------------------------------------------------------------
(* load_elu_mesh_b: GunZ: The Second Duel and RaiderZ *)

\* A step of a decoder that moves the cursor and changes its locals only.
Advance(out, next, newloc) ==
    /\ pos' = out.pos
    /\ eof' = out.eof
    /\ pc' = next
    /\ loc' = newloc
    /\ UNCHANGED <<input_class, library, result, error, header, driver, sink>>

ParentIndices ==
    CASE input_class = "scene"    -> {NO_PARENT_INDEX, 0, 1}
      [] input_class = "skeleton" -> {0}
      [] OTHER -> {NO_PARENT_INDEX}

\* Lines 406-418: the two length-prefixed names, decoded and classified.
load_elu_mesh_b_names ==
    /\ pc = "b_names"
    /\ \E name \in MeshRawNames, parent_name \in ParentRawNames :
         LET plan == <<U(4), R(Len(name)), U(4), R(Len(parent_name))>>
         IN  \E avail \in Avail(plan) :
             LET out == Run(plan, avail)
             IN  IF out.raised THEN Raise("struct.error", out)
                 ELSE
                 LET got_name   == SubSeq(name, 1, out.got[2])
                     got_parent == SubSeq(parent_name, 1, out.got[4])
                 IN  IF ~IsAscii(got_name) \/ ~IsAscii(got_parent)
                     THEN Raise("UnicodeDecodeError", out)
                     ELSE /\ Advance(out, "b_parent_index",
                               [loc EXCEPT
                                  !.name = got_name,
                                  !.parent_name = got_parent,
                                  !.mesh_name = elu_to_blender_name(rstrip(got_name))[1],
                                  !.is_bip = elu_to_blender_name(rstrip(got_name))[2],
                                  !.parent_mesh_name =
                                      elu_to_blender_name(rstrip(got_parent))[1]])
                          /\ UNCHANGED <<warnings, last_count>>

\* Lines 422-425: the reserved block after the parent index.
ReservedAfterIndex(v) == IF v = x5008 THEN 20 ELSE 8

\* Lines 420-425.
load_elu_mesh_b_parent_index ==
    /\ pc = "b_parent_index"
    /\ \E idx \in ParentIndices :
         LET plan == <<U(4), S(ReservedAfterIndex(version))>>
         IN  \E avail \in Avail(plan) :
             LET out == Run(plan, avail)
             IN  IF out.raised THEN Raise("struct.error", out)
                 ELSE /\ Advance(out, "b_matrix", [loc EXCEPT !.parent_mesh_index = idx])
                      /\ UNCHANGED <<warnings, last_count>>

\* Lines 436-440: the reserved block after the local matrix.
ReservedAfterMatrix(v) ==
    IF v >= x500E /\ v <= x5010 THEN 12
    ELSE IF v > x5008 THEN 4
    ELSE 0

\* Lines 427-440: the local matrix (its 16 floats are not modelled).
load_elu_mesh_b_matrix ==
    /\ pc = "b_matrix"
    /\ LET plan == <<U(64), S(ReservedAfterMatrix(version))>>
       IN  \E avail \in Avail(plan) :
           LET out == Run(plan, avail)
           IN  IF out.raised THEN Raise("struct.error", out)
               ELSE /\ Advance(out, "b_positions", loc)
                    /\ UNCHANGED <<warnings, last_count>>

\* Lines 442-451: the position pool.
load_elu_mesh_b_positions ==
    /\ pc = "b_positions"
    /\ \E n \in PositionCounts :
         LET plan == <<U(4)>> \o Rep(U(12), n)
         IN  \E avail \in Avail(plan) :
             LET out == Run(plan, avail)
             IN  IF out.raised THEN Raise("struct.error", out)
                 ELSE /\ Advance(out, "b_normals", [loc EXCEPT !.vertex_positions = n])
                      /\ last_count' = <<pos, n>>
                      /\ UNCHANGED warnings

\* Lines 453-462: the normal pool (read, never used).
load_elu_mesh_b_normals ==
    /\ pc = "b_normals"
    /\ \E n \in ReservedCounts :
         LET plan == <<U(4)>> \o Rep(U(12), n)
         IN  \E avail \in Avail(plan) :
             LET out == Run(plan, avail)
             IN  IF out.raised THEN Raise("struct.error", out)
                 ELSE /\ Advance(out, "b_reserved1", loc)
                      /\ last_count' = <<pos, n>>
                      /\ UNCHANGED warnings

\* Lines 466-469: the entry length of the first reserved pool.
skipped_length(v) == IF v > x500E THEN 16 ELSE 12

\* Lines 464-474: the first reserved pool.
load_elu_mesh_b_reserved1 ==
    /\ pc = "b_reserved1"
    /\ \E n \in ReservedCounts :
         LET plan == <<U(4)>> \o Rep(S(skipped_length(version)), n)
         IN  \E avail \in Avail(plan) :
             LET out == Run(plan, avail)
             IN  IF out.raised THEN Raise("struct.error", out)
                 ELSE /\ Advance(out, "b_reserved2", loc)
                      /\ last_count' = <<pos, n>>
                      /\ UNCHANGED warnings

\* Lines 477-478: a nonzero second reserved count after 0x500E.
Reserved2Anomaly(v, n) == v > x500E /\ n # 0

\* A variant that skips the pool with the count as read.
KeepReserved2(v, n) == n

\* Lines 477-481: the count the pool after it is skipped with.
FixReserved2(v, n) == IF Reserved2Anomaly(v, n) THEN 0 ELSE n

\* Lines 476-486: the second reserved count and its pool.
load_elu_mesh_b_reserved2 ==
    /\ pc = "b_reserved2"
    /\ \E n \in ReservedCounts :
         LET fixed == FixReserved2(version, n)
             plan  == <<U(4)>> \o Rep(S(12), fixed)
         IN  \E avail \in Avail(plan) :
             LET out == Run(plan, avail)
             IN  IF out.raised THEN Raise("struct.error", out)
                 ELSE /\ Advance(out, "b_texcoords", loc)
                      /\ last_count' = <<pos, n>>
                      /\ warnings' = IF Reserved2Anomaly(version, n)
                                     THEN Append(warnings, pos + 4) ELSE warnings

\* Lines 488-497: the texcoord pool.
load_elu_mesh_b_texcoords ==
    /\ pc = "b_texcoords"
    /\ \E n \in TexcoordCounts :
         LET plan == <<U(4)>> \o Rep(U(12), n)
         IN  \E avail \in Avail(plan) :
             LET out == Run(plan, avail)
             IN  IF out.raised THEN Raise("struct.error", out)
                 ELSE /\ Advance(out, "b_reserved3", [loc EXCEPT !.vertex_texcoords = n])
                      /\ last_count' = <<pos, n>>
                      /\ UNCHANGED warnings

\* Lines 499-500: the versions that carry the third reserved pool.
HasReserved3(v) == v >= x500E /\ v # x5010

\* Lines 499-506: the third reserved pool.
load_elu_mesh_b_reserved3 ==
    /\ pc = "b_reserved3"
    /\ \E n \in ReservedCounts :
         LET plan == IF HasReserved3(version)
                     THEN <<U(4)>> \o Rep(S(12), n) ELSE <<>>
         IN  \E avail \in Avail(plan) :
             LET out == Run(plan, avail)
             IN  IF out.raised THEN Raise("struct.error", out)
                 ELSE /\ Advance(out, "b_groups", loc)
                      /\ last_count' = IF HasReserved3(version) THEN <<pos, n>>
                                                               ELSE last_count
                      /\ UNCHANGED warnings

\* Lines 520-523: the entry length of the grouping table.
GroupEntryLength(v) == IF v < x500E THEN 10 ELSE 12

RECURSIVE GroupPlan(_, _)
GroupPlan(subs, len) ==
    IF subs = <<>> THEN <<>>
    ELSE <<U(4)>> \o Rep(S(len), Head(subs)) \o <<S(2)>> \o GroupPlan(Tail(subs), len)

\* Lines 508-530: the grouping table; up to 0x500A its count is the face count.
load_elu_mesh_b_groups ==
    /\ pc = "b_groups"
    /\ \E n \in GroupCounts(version) :
       \E subs \in [1..n -> ReservedCounts] :
         LET plan == <<U(4)>> \o
                     (IF version > x500A
                      THEN IF n > 0
                           THEN <<S(8)>> \o GroupPlan(subs, GroupEntryLength(version))
                           ELSE <<>>
                      ELSE Rep(S(32), n))
         IN  \E avail \in Avail(plan) :
             LET out == Run(plan, avail)
             IN  IF out.raised THEN Raise("struct.error", out)
                 ELSE /\ Advance(out, "b_reserved4", [loc EXCEPT !.face_count = n])
                      /\ last_count' = <<pos, n>>
                      /\ UNCHANGED warnings

\* Lines 532-538: the fourth reserved pool and the field after it.
load_elu_mesh_b_reserved4 ==
    /\ pc = "b_reserved4"
    /\ \E n \in ReservedCounts :
         LET plan == <<U(4)>> \o Rep(S(12), n) \o <<S(4)>>
         IN  \E avail \in Avail(plan) :
             LET out == Run(plan, avail)
             IN  IF out.raised THEN Raise("struct.error", out)
                 ELSE /\ Advance(out, "b_blend_count", loc)
                      /\ last_count' = <<pos, n>>
                      /\ UNCHANGED warnings

\* Lines 541-542 and 568-569: a nonzero count before 0x500E.
EarlyAnomaly(v, n) == v < x500E /\ n # 0

\* Lines 541-545: the blend-vertex count the table is read with.
FixBlendCount(v, n) == IF EarlyAnomaly(v, n) THEN 0 ELSE n

\* Lines 540-548: the blend-vertex count.
load_elu_mesh_b_blend_count ==
    /\ pc = "b_blend_count"
    /\ \E n \in BlendCounts, avail \in Avail(<<U(4)>>) :
         LET out   == Run(<<U(4)>>, avail)
             fixed == FixBlendCount(version, n)
         IN  IF out.raised THEN Raise("struct.error", out)
             ELSE /\ Advance(out, IF fixed > 0 THEN "b_blend_vertex" ELSE "b_reserved5",
                             [loc EXCEPT !.blend_vertex_count = fixed, !.i = 0,
                                         !.bone_influences = <<>>,
                                         !.blend_table = <<>>])
                  /\ last_count' = <<pos, n>>
                  /\ warnings' = IF EarlyAnomaly(version, n)
                                 THEN Append(warnings, pos + 4) ELSE warnings

\* The statement after blend vertex i is finished.
AfterBlendVertex(l) ==
    IF l.i + 1 < l.blend_vertex_count THEN "b_blend_vertex" ELSE "b_reserved5"

\* Lines 550-551: the influence count of blend vertex i.
load_elu_mesh_b_blend_vertex ==
    /\ pc = "b_blend_vertex"
    /\ \E n \in InfluenceCounts, avail \in Avail(<<U(4)>>) :
         LET out == Run(<<U(4)>>, avail)
             l   == [loc EXCEPT !.blend_table = Append(@, <<>>)]
         IN  IF out.raised THEN Raise("struct.error", out)
             ELSE /\ IF n > 0
                     THEN Advance(out, "b_influence", [l EXCEPT !.j = n])
                     ELSE Advance(out, AfterBlendVertex(l), [l EXCEPT !.i = @ + 1])
                  /\ UNCHANGED <<warnings, last_count>>

\* A Python dict as a function; d[k] = v.
Put(d, k, v) == [x \in (DOMAIN d) \cup {k} |-> IF x = k THEN v ELSE d[x]]

InSeq(x, q) == \E k \in 1..Len(q) : q[k] = x

\* A variant that appends the vertex whether or not the list holds it.
RecordInfluenceAgain(bi, bone_index, bone_weight, i) ==
    IF bone_weight > 0
    THEN LET byWeight == IF bone_index \in DOMAIN bi THEN bi[bone_index] ELSE <<>>
             verts    == IF bone_weight \in DOMAIN byWeight
                         THEN byWeight[bone_weight] ELSE <<>>
         IN  Put(bi, bone_index, Put(byWeight, bone_weight, Append(verts, i)))
    ELSE bi

\* Lines 557-565: one influence (bone_index, bone_weight) of blend vertex i.
RecordInfluence(bi, bone_index, bone_weight, i) ==
    IF bone_weight > 0
    THEN LET byWeight == IF bone_index \in DOMAIN bi THEN bi[bone_index] ELSE <<>>
             verts    == IF bone_weight \in DOMAIN byWeight
                         THEN byWeight[bone_weight] ELSE <<>>
             verts2   == IF InSeq(i, verts) THEN verts ELSE Append(verts, i)
         IN  Put(bi, bone_index, Put(byWeight, bone_weight, verts2))
    ELSE bi

\* Lines 552-565: one influence record.
load_elu_mesh_b_influence ==
    /\ pc = "b_influence"
    /\ \E infl \in Influences :
         LET plan == <<S(2), U(6)>>
             bone_index  == infl[1]
             bone_weight == infl[2]
         IN  \E avail \in Avail(plan) :
             LET out  == Run(plan, avail)
                 l    == [loc EXCEPT
                            !.j = @ - 1,
                            !.blend_table[loc.i + 1] =
                                Append(@, <<bone_index, bone_weight>>),
                            !.bone_influences =
                                RecordInfluence(@, bone_index, bone_weight, loc.i)]
             IN  IF out.raised THEN Raise("struct.error", out)
                 ELSE /\ IF l.j > 0
                         THEN Advance(out, "b_influence", l)
                         ELSE Advance(out, AfterBlendVertex(l), [l EXCEPT !.i = @ + 1])
                      /\ UNCHANGED <<warnings, last_count>>

\* A variant that skips the table with the count as read.
KeepReserved5(v, n) == n

\* Lines 568-572: the count the reserved table after the blend vertices is
\* skipped with.
FixReserved5(v, n) == IF EarlyAnomaly(v, n) THEN 0 ELSE n

\* Lines 567-580: the reserved table of matrices and indices.
load_elu_mesh_b_reserved5 ==
    /\ pc = "b_reserved5"
    /\ \E n \in ReservedCounts :
         LET fixed == FixReserved5(version, n)
             plan  == <<U(4)>> \o Rep(S(64), fixed) \o Rep(S(2), fixed)
         IN  \E avail \in Avail(plan) :
             LET out == Run(plan, avail)
             IN  IF out.raised THEN Raise("struct.error", out)
                 ELSE /\ Advance(out, "b_vertex_count", loc)
                      /\ last_count' = <<pos, n>>
                      /\ warnings' = IF EarlyAnomaly(version, n)
                                     THEN Append(warnings, pos + 4) ELSE warnings

\* Lines 582-586: the count of the indexed-vertex table.
load_elu_mesh_b_vertex_count ==
    /\ pc = "b_vertex_count"
    /\ \E n \in VertexCounts, avail \in Avail(<<U(4)>>) :
         LET out == Run(<<U(4)>>, avail)
         IN  IF out.raised THEN Raise("struct.error", out)
             ELSE /\ Advance(out, IF n > 0 THEN "b_vertex_index" ELSE "b_face_count",
                             [loc EXCEPT !.vertex_count = n, !.vertex_indices = <<>>,
                                         !.vertex_fields = <<>>])
                  /\ last_count' = <<pos, n>>
                  /\ UNCHANGED warnings

\* Lines 591-608: the length of one entry of the indexed-vertex table.
VertexEntryLength(v) == IF v < x500E THEN 10 ELSE 12

SameOrderAt500E(v, f) == <<f[1], f[2], f[3], f[4], f[5]>>

\* Lines 591-610: the entry (position, normal, texcoord, unknown0, unknown1)
\* made of the five fields f in file order.
VertexEntry(v, f) ==
    IF v = x500E THEN <<f[1], f[2], f[5], f[4], f[3]>>
    ELSE <<f[1], f[2], f[3], f[4], f[5]>>

\* Lines 588-610: one entry of the indexed-vertex table.
load_elu_mesh_b_vertex_index ==
    /\ pc = "b_vertex_index"
    /\ \E f \in VertexFields, avail \in Avail(<<U(VertexEntryLength(version))>>) :
         LET out == Run(<<U(VertexEntryLength(version))>>, avail)
             l   == [loc EXCEPT !.vertex_indices = Append(@, VertexEntry(version, f)),
                                !.vertex_fields = Append(@, f)]
         IN  IF out.raised THEN Raise("struct.error", out)
             ELSE /\ Advance(out,
                             IF Len(l.vertex_indices) < l.vertex_count
                             THEN "b_vertex_index" ELSE "b_face_count", l)
                  /\ UNCHANGED <<warnings, last_count>>

\* Lines 612-624: after 0x500A the face count comes from the face-index count.
load_elu_mesh_b_face_count ==
    /\ pc = "b_face_count"
    /\ \E n \in FaceIndexCounts :
         LET plan == IF version > x500A THEN <<S(4), U(4)>> ELSE <<>>
             fc   == IF version > x500A THEN n \div 3 ELSE loc.face_count
         IN  \E avail \in Avail(plan) :
             LET out == Run(plan, avail)
             IN  IF out.raised THEN Raise("struct.error", out)
                 ELSE /\ Advance(out, IF fc > 0 THEN "b_face" ELSE "b_trailer",
                                 [loc EXCEPT !.face_count = fc, !.faces = <<>>])
                      /\ last_count' = IF version > x500A THEN <<pos + 4, n>>
                                                            ELSE last_count
                      /\ UNCHANGED warnings

\* Lines 627-638: the face made of the table entries y[1], y[2], y[3].
ResolveFace(vi, y) ==
    << <<vi[y[1] + 1][1], vi[y[2] + 1][1], vi[y[3] + 1][1]>>,
       <<vi[y[1] + 1][2], vi[y[2] + 1][2], vi[y[3] + 1][2]>>,
       <<vi[y[1] + 1][3], vi[y[2] + 1][3], vi[y[3] + 1][3]>> >>

\* Lines 626-638: one face; an index past the table raises IndexError.
load_elu_mesh_b_face ==
    /\ pc = "b_face"
    /\ \E y \in FaceCorners, avail \in Avail(<<U(6)>>) :
         LET out == Run(<<U(6)>>, avail)
         IN  IF out.raised THEN Raise("struct.error", out)
             ELSE IF \E k \in 1..3 : y[k] >= Len(loc.vertex_indices)
             THEN Raise("IndexError", out)
             ELSE LET l == [loc EXCEPT
                              !.faces = Append(@, ResolveFace(loc.vertex_indices, y))]
                  IN  /\ Advance(out, IF Len(l.faces) < l.face_count
                                      THEN "b_face" ELSE "b_trailer", l)
                      /\ UNCHANGED <<warnings, last_count>>

\* Lines 647-648: the fixed block that ends an entry from 0x500E on.
TrailerLength(v) == IF v >= x500E THEN 24 ELSE 0

\* Lines 640-648: the trailing reserved pool.
load_elu_mesh_b_trailer ==
    /\ pc = "b_trailer"
    /\ \E n \in ReservedCounts :
         LET plan == <<U(4)>> \o Rep(S(12), n) \o <<S(TrailerLength(version))>>
         IN  \E avail \in Avail(plan) :
             LET out == Run(plan, avail)
             IN  IF out.raised THEN Raise("struct.error", out)
                 ELSE /\ Advance(out, "b_build", loc)
                      /\ last_count' = <<pos, n>>
                      /\ UNCHANGED warnings

---------------------------------------------------------------------------
(* bpy.data: the scene sink *)

MeshNames(ms) == {ms[k].name : k \in 1..Len(ms)}
ObjectNames(os) == {os[k].name : k \in 1..Len(os)}

\* bpy.data.objects[name], bpy.data.meshes[name]
Lookup(q, name) == q[CHOOSE k \in 1..Len(q) : q[k].name = name]

\* The name a new datablock gets: Blender appends .001, .002, ... to a name
\* that is taken.
Suffix(k) == <<46, 48, 48, 48 + k>>
UniqueName(name, taken) ==
    IF name \notin taken THEN name
    ELSE name \o Suffix(CHOOSE k \in 1..9 :
                          /\ (name \o Suffix(k)) \notin taken
                          /\ \A h \in 1..(k - 1) : (name \o Suffix(h)) \in taken)

\* A variant that takes positions or faces alone for a real mesh.
MeshBEither(mesh_name, positions, faces) ==
    IF positions > 0 \/ faces > 0
    THEN [name |-> mesh_name, is_bip |-> FALSE,
          vertices |-> positions, edges |-> 0, faces |-> faces]
    ELSE [name |-> mesh_name, is_bip |-> TRUE,
          vertices |-> 8, edges |-> 12, faces |-> 0]

\* Lines 658-711: the mesh datablock of a Format B entry: the decoded geometry,
\* or the unit cube of 8 vertices and 12 edges that stands for a bone.
MeshB(mesh_name, positions, faces) ==
    IF positions > 0 /\ faces > 0
    THEN [name |-> mesh_name, is_bip |-> FALSE,
          vertices |-> positions, edges |-> 0, faces |-> faces]
    ELSE [name |-> mesh_name, is_bip |-> TRUE,
          vertices |-> 8, edges |-> 12, faces |-> 0]

\* Lines 664-675: from 0x500B on the UVs of a real mesh are looked up in the
\* texcoord pool; an index past the pool raises IndexError.
UvLookupFails(v, l) ==
    /\ l.vertex_positions > 0 /\ Len(l.faces) > 0
    /\ v >= x500B
    /\ \E f \in 1..Len(l.faces), k \in 1..3 : l.faces[f][3][k] >= l.vertex_texcoords

\* Lines 720-725: the vertex groups of the object: the bone indices.
GroupsB(v, l) == IF v > x500B THEN DOMAIN l.bone_influences ELSE {}

\* A variant that looks the parent name up whatever the parent index is.
HasParentByName(l, os) == l.parent_mesh_name \in ObjectNames(os)

\* Lines 727-729: whether the object gets a parent.
HasParentB(l, os) ==
    l.parent_mesh_index # NO_PARENT_INDEX /\ l.parent_mesh_name \in ObjectNames(os)

\* The decoder returned None.
NoObject ==
    [name |-> None, type |-> "NONE", data |-> None, is_bip |-> FALSE,
     parent |-> None, groups |-> {}]

\* Lines 898-910: the loop body of load_elu after the decoder returned obj (an
\* object record, or NoObject), and the loop's next turn.
load_elu_collect(obj) ==
    /\ loop_i' = loop_i + 1
    /\ pc' = IF loop_i + 1 < mesh_count THEN load_elu_mesh(version) ELSE "resolve"
    /\ loc' = NoLocals
    /\ IF obj.type = "NONE"
       THEN UNCHANGED <<names, bip_mesh_objects, z_mesh_objects>>
       ELSE /\ names' = Append(names, obj.name)
            /\ IF obj.type = "MESH"
               THEN IF obj.is_bip
                    THEN /\ bip_mesh_objects' = Append(bip_mesh_objects, obj.name)
                         /\ UNCHANGED z_mesh_objects
                    ELSE /\ z_mesh_objects' = Append(z_mesh_objects, obj.name)
                         /\ UNCHANGED bip_mesh_objects
               ELSE UNCHANGED <<bip_mesh_objects, z_mesh_objects>>

\* Lines 650-744: the mesh and the object of the entry are made in bpy.data.
load_elu_mesh_b_build ==
    /\ pc = "b_build"
    /\ IF loc.mesh_name \in MeshNames(data_meshes)
       THEN /\ error' = "WTF!"
            /\ load_elu_collect(NoObject)
            /\ UNCHANGED <<input_class, library, result, warnings, cursor, header, sink,
                           last_count>>
       ELSE LET mesh == MeshB(loc.mesh_name, loc.vertex_positions, Len(loc.faces))
            IN  IF UvLookupFails(version, loc)
                THEN /\ data_meshes' = Append(data_meshes, mesh)
                     /\ pc' = "done"
                     /\ result' = "RAISED"
                     /\ error' = "IndexError"
                     /\ loc' = NoLocals
                     /\ UNCHANGED <<input_class, library, warnings, cursor, header, driver,
                                    data_objects, scene_objects, edit_bones,
                                    last_count>>
                ELSE
                LET oname == UniqueName(loc.mesh_name, ObjectNames(data_objects))
                    \* bpy.data.objects holds the new object when the parent
                    \* name is looked up; an object named as its own parent is
                    \* left to the host: it takes it or refuses it.
                    parents ==
                        IF ~HasParentB(loc, Append(data_objects, [name |-> oname]))
                        THEN {None}
                        ELSE IF loc.parent_mesh_name = oname THEN {None, oname}
                        ELSE {loc.parent_mesh_name}
                IN  \E par \in parents :
                    LET obj == [name |-> oname, type |-> "MESH", data |-> mesh.name,
                                is_bip |-> mesh.is_bip, parent |-> par,
                                groups |-> GroupsB(version, loc)]
                    IN  /\ data_meshes' = Append(data_meshes, mesh)
                        /\ data_objects' = Append(data_objects, obj)
                        /\ scene_objects' = Append(scene_objects, oname)
                        /\ load_elu_collect(obj)
                        /\ UNCHANGED <<input_class, library, result, error, warnings, cursor,
                                       header, edit_bones, last_count>>

---------------------------------------------------------------------------
(* load_elu_textured_material, load_elu_material and load_elu_texture:      *)
(* GunZ: The Duel                                                            *)

MaterialNames(ms) == {ms[k].name : k \in 1..Len(ms)}
TextureNames(ts) == {ts[k].name : k \in 1..Len(ts)}

\* Line 830: "z_material.{0:03}".format(index0), for a one-digit index0.
MaterialName(index0) ==
    <<122, 95, 109, 97, 116, 101, 114, 105, 97, 108, 46>> \o Pad3(<<48 + index0>>)

\* Lines 834-847: the material made of the entry's fields.
NewMaterial(name, diffuse_color, specular_color, specular_power) ==
    [name |-> name,
     diffuse_color |-> SubSeq(diffuse_color, 1, 3), alpha |-> diffuse_color[4],
     specular_color |-> SubSeq(specular_color, 1, 3),
     specular_alpha |-> specular_color[4],
     specular_intensity |-> specular_power,
     texture_slots |-> <<>>]

\* Lines 818-851: the fields of a material entry are read; the material of
\* its name is made, or found in bpy.data.materials and left as it is.
load_elu_material ==
    /\ pc = "material"
    /\ \E f \in MaterialFields :
         LET index0 == f[1]
             diffuse_color == f[2]
             specular_color == f[3]
             specular_power == f[4]
             plan == <<U(8), U(16), U(16), U(16), U(4), S(4)>>
             material_name == MaterialName(index0)
         IN  \E avail \in Avail(plan) :
             LET out == Run(plan, avail)
             IN  IF out.raised
                 THEN Raise("struct.error", out)
                 ELSE /\ pos' = out.pos
                      /\ eof' = out.eof
                      /\ pc' = "texture"
                      /\ loc' = [loc EXCEPT
                                    !.material = material_name,
                                    !.found = material_name
                                                \in MaterialNames(data_materials)]
                      /\ data_materials' =
                             IF material_name \notin MaterialNames(data_materials)
                             THEN Append(data_materials,
                                         NewMaterial(material_name, diffuse_color,
                                                     specular_color, specular_power))
                             ELSE data_materials
                      /\ UNCHANGED <<input_class, result, error, warnings, header,
                                     driver, sink, last_count, data_textures,
                                     data_images>>

ShortNamesThrough5006(v) == IF v <= x5006 THEN NAME_LENGTH ELSE PATH_LENGTH

\* Lines 764-769: the length of a texture name block.
TextureNameLength(v) == IF v < x5006 THEN NAME_LENGTH ELSE PATH_LENGTH

\* A fixed block of n bytes that holds name and is padded with NULs.
Block(name, n) == name \o [k \in 1..(n - Len(name)) |-> NUL]

\* Lines 774-775: os.path.splitext of a name without a path separator: the
\* extension begins at the last dot that follows a byte other than a dot.
splitext(s) ==
    LET dots == {k \in 2..Len(s) : s[k] = 46 /\ \E h \in 1..(k - 1) : s[h] # 46}
    IN  IF dots = {} THEN <<s, <<>> >>
        ELSE LET k == CHOOSE k \in dots : \A h \in dots : h <= k
             IN  <<SubSeq(s, 1, k - 1), SubSeq(s, k, Len(s))>>

\* Lines 784-806: the image of a new texture: the image of the name in
\* bpy.data.images, or the first candidate file that exists, loaded under its
\* file name, or a new image named after the texture.
ImageNames(image_name0, found) ==
    LET texture_name0 == splitext(image_name0)[1]
        texture_ext0  == splitext(image_name0)[2]
        fnames == << texture_name0 \o texture_ext0,
                     texture_name0 \o <<46, 100, 100, 115>>,
                     texture_name0 \o texture_ext0 \o <<46, 100, 100, 115>> >>
    IN  IF found = 0 THEN texture_name0 ELSE fnames[found]

\* Lines 758-815: both name blocks are read and decoded; the texture named by
\* the first, without its extension, is made with its image, or found in
\* bpy.data.textures.
load_elu_texture ==
    /\ pc = "texture"
    /\ \E raw \in TextureRawNames, found \in FoundFiles :
         LET n    == TextureNameLength(version)
             plan == <<R(n), R(n)>>
         IN  \E avail \in Avail(plan) \cap TextureLengths(n) :
             LET out  == Run(plan, avail)
                 got0 == SubSeq(Block(raw[1], n), 1, out.got[1])
                 got1 == SubSeq(Block(raw[2], n), 1, out.got[2])
                 image_name0   == rstrip(got0)
                 texture_name0 == splitext(image_name0)[1]
             IN  IF ~IsAscii(got0) \/ ~IsAscii(got1)
                 THEN Raise("UnicodeDecodeError", out)
                 ELSE /\ pos' = out.pos
                      /\ eof' = out.eof
                      /\ pc' = "material_slot"
                      /\ loc' = [loc EXCEPT !.texture = texture_name0]
                      /\ IF texture_name0 \notin TextureNames(data_textures)
                         THEN LET made == IF InSeq(image_name0, data_images)
                                          THEN <<>>
                                          ELSE <<UniqueName(
                                                   ImageNames(image_name0, found),
                                                   {data_images[k] :
                                                      k \in 1..Len(data_images)})>>
                                  image == IF made = <<>> THEN image_name0
                                           ELSE made[1]
                              IN  /\ data_images' = data_images \o made
                                  /\ data_textures' =
                                         Append(data_textures,
                                                [name |-> texture_name0,
                                                 image |-> image])
                         ELSE UNCHANGED <<data_textures, data_images>>
                      /\ UNCHANGED <<input_class, result, error, warnings, header,
                                     driver, sink, last_count, data_materials>>

\* Lines 862-871: the flags that follow the texture names.
FlagsPlan(v) ==
    (IF v > x5001 THEN <<U(4)>> ELSE <<>>)
    \o (IF v > x5003 THEN <<U(4)>> ELSE <<>>)
    \o (IF v > x5006 THEN <<U(4)>> ELSE <<>>)

SlotOfNewMaterialOnly(ms, material_name, texture_name) ==
    [k \in 1..Len(ms) |->
        IF ms[k].name = material_name /\ ms[k].texture_slots = <<>>
        THEN [ms[k] EXCEPT !.texture_slots = Append(@, texture_name)]
        ELSE ms[k]]

\* Lines 873-880: material.texture_slots.add() and the slot's texture.
AddSlot(ms, material_name, texture_name) ==
    [k \in 1..Len(ms) |->
        IF ms[k].name = material_name
        THEN [ms[k] EXCEPT !.texture_slots = Append(@, texture_name)]
        ELSE ms[k]]

\* Lines 854-880 and 889-890: after the material and the texture, the flags
\* are read and the texture is bound to a new slot of the material; then the
\* next turn of the material loop, or the mesh loop.
load_elu_textured_material ==
    /\ pc = "material_slot"
    /\ LET plan == FlagsPlan(version)
       IN  \E avail \in Avail(plan) :
           LET out == Run(plan, avail)
           IN  IF out.raised
               THEN Raise("struct.error", out)
               ELSE /\ data_materials' = AddSlot(data_materials, loc.material,
                                                 loc.texture)
                    /\ pos' = out.pos
                    /\ eof' = out.eof
                    /\ loop_i' = IF loop_i + 1 < material_count THEN loop_i + 1 ELSE 0
                    /\ pc' = IF loop_i + 1 < material_count THEN "material"
                             ELSE AfterMaterials(version, mesh_count)
                    /\ loc' = NoLocals
                    /\ UNCHANGED <<input_class, result, error, warnings, header,
                                   names, bip_mesh_objects, z_mesh_objects, sink,
                                   last_count, data_textures, data_images>>

---------------------------------------------------------------------------
(* load_elu_mesh_a: GunZ: The Duel *)

\* A fixed block of NAME_LENGTH bytes that holds name and is padded with NULs.
NameBlock(name) == name \o [k \in 1..(NAME_LENGTH - Len(name)) |-> NUL]

\* Lines 112-118: the two fixed name blocks; a short read yields what is left.
load_elu_mesh_a_names ==
    /\ pc = "a_names"
    /\ \E name \in MeshRawNames, parent_name \in ParentRawNames :
         LET plan == <<R(NAME_LENGTH), R(NAME_LENGTH)>>
         IN  \E avail \in Avail(plan) :
             LET out        == Run(plan, avail)
                 got_name   == SubSeq(NameBlock(name), 1, out.got[1])
                 got_parent == SubSeq(NameBlock(parent_name), 1, out.got[2])
             IN  IF ~IsAscii(got_name) \/ ~IsAscii(got_parent)
                 THEN Raise("UnicodeDecodeError", out)
                 ELSE /\ Advance(out, "a_matrix",
                           [loc EXCEPT
                              !.name = got_name,
                              !.parent_name = got_parent,
                              !.mesh_name = elu_to_blender_name(rstrip(got_name))[1],
                              !.is_bip = elu_to_blender_name(rstrip(got_name))[2],
                              !.parent_mesh_name =
                                  elu_to_blender_name(rstrip(got_parent))[1]])
                      /\ UNCHANGED <<warnings, last_count>>

\* Lines 129-154: the scale, and the rotation, pivot scale and pivot matrix.
TransformPlan(v) ==
    (IF v > x11 THEN <<U(12)>> ELSE <<>>)
    \o (IF v > x5002 THEN <<U(16), U(16), U(64)>> ELSE <<>>)

\* Lines 120-154: the world matrix and the transform (floats not modelled).
load_elu_mesh_a_matrix ==
    /\ pc = "a_matrix"
    /\ LET plan == <<U(64)>> \o TransformPlan(version)
       IN  \E avail \in Avail(plan) :
           LET out == Run(plan, avail)
           IN  IF out.raised THEN Raise("struct.error", out)
               ELSE /\ Advance(out, "a_vertices", loc)
                    /\ UNCHANGED <<warnings, last_count>>

\* Lines 156-163: the vertices.
load_elu_mesh_a_vertices ==
    /\ pc = "a_vertices"
    /\ \E n \in PositionCounts :
         LET plan == <<U(4)>> \o Rep(U(12), n)
         IN  \E avail \in Avail(plan) :
             LET out == Run(plan, avail)
             IN  IF out.raised THEN Raise("struct.error", out)
                 ELSE /\ Advance(out, "a_face_count", [loc EXCEPT !.vertices = n])
                      /\ last_count' = <<pos, n>>
                      /\ UNCHANGED warnings

\* Lines 165-171: the face count.
load_elu_mesh_a_face_count ==
    /\ pc = "a_face_count"
    /\ \E n \in FaceCounts, avail \in Avail(<<U(4)>>) :
         LET out == Run(<<U(4)>>, avail)
         IN  IF out.raised THEN Raise("struct.error", out)
             ELSE /\ Advance(out, IF n > 0 THEN "a_face" ELSE "a_normals",
                             [loc EXCEPT !.face_count = n])
                  /\ last_count' = <<pos, n>>
                  /\ UNCHANGED warnings

\* Lines 176-179: the face of a record's indices (v1, v2, v3).
DecodeFace(idx) ==
    IF idx[3] = 0 THEN <<idx[3], idx[1], idx[2]>> ELSE idx

\* Line 186: (u, 1.0 - v) of a record's (u, v, w).
FlipUV(uvw) == <<uvw[1], 1 - uvw[2]>>

\* A variant that leaves the UVs in record order.
UnrotatedUVs(idx, uvws) == [j \in 1..FACE_VERTEX_COUNT |-> FlipUV(uvws[j])]

\* Lines 181-191: the UVs of a record's indices and (u, v, w) triples.
DecodeUVs(idx, uvws) ==
    LET face_uvs == [j \in 1..FACE_VERTEX_COUNT |-> FlipUV(uvws[j])]
    IN  IF idx[3] = 0 THEN <<face_uvs[3], face_uvs[1], face_uvs[2]>> ELSE face_uvs

\* Lines 195-198: smooth_groups[g].extend([v1, v2, v3])
ExtendSmoothGroup(sg, g, idx) ==
    Put(sg, g, (IF g \in DOMAIN sg THEN sg[g] ELSE <<>>) \o idx)

\* Lines 173-198: one face record; a smoothing-group index past the 32 groups
\* raises IndexError.
load_elu_mesh_a_face ==
    /\ pc = "a_face"
    /\ \E idx \in FaceIndices, uvws \in FaceUVWs, g \in SmoothGroupIndices :
         LET plan == <<U(12)>> \o Rep(U(12), FACE_VERTEX_COUNT) \o <<S(4)>>
                     \o (IF version > x5001 THEN <<U(4)>> ELSE <<>>)
         IN  \E avail \in Avail(plan) :
             LET out == Run(plan, avail)
                 l   == [loc EXCEPT
                           !.faces = Append(@, DecodeFace(idx)),
                           !.uv_faces = Append(@, DecodeUVs(idx, uvws)),
                           !.face_records = Append(@, <<idx, uvws>>),
                           !.smooth_groups =
                               IF version > x5001
                               THEN ExtendSmoothGroup(@, g, idx) ELSE @,
                           !.i = @ + 1]
             IN  IF out.raised THEN Raise("struct.error", out)
                 ELSE IF version > x5001 /\ g >= SMOOTH_GROUP_COUNT
                 THEN Raise("IndexError", out)
                 ELSE /\ Advance(out, IF l.i < l.face_count
                                      THEN "a_face" ELSE "a_normals", l)
                      /\ UNCHANGED <<warnings, last_count>>

\* Lines 200-207: the face normal and the vertex normals of every face.
NormalsPlan(v, face_count) ==
    IF v > x5004 THEN Rep(S(12), face_count * (1 + FACE_VERTEX_COUNT)) ELSE <<>>

\* Lines 200-217: the normals are skipped and the vertex colours read.
load_elu_mesh_a_normals ==
    /\ pc = "a_normals"
    /\ \E n \in ColorCounts, color \in Colors :
         LET plan == NormalsPlan(version, loc.face_count)
                     \o (IF version > x5004 THEN <<U(4)>> \o Rep(U(12), n) ELSE <<>>)
         IN  \E avail \in Avail(plan) :
             LET out == Run(plan, avail)
             IN  IF out.raised THEN Raise("struct.error", out)
                 ELSE /\ Advance(out, "a_material",
                            [loc EXCEPT !.vertex_colors =
                                IF version > x5004 THEN [k \in 1..n |-> color]
                                ELSE <<>>])
                      /\ UNCHANGED <<warnings, last_count>>

\* Lines 219-222: the material index and the number of bone-influence groups.
load_elu_mesh_a_material ==
    /\ pc = "a_material"
    /\ \E m \in MaterialIndices, n \in WeightGroupCounts, avail \in Avail(<<U(8)>>) :
         LET out == Run(<<U(8)>>, avail)
         IN  IF out.raised THEN Raise("struct.error", out)
             ELSE /\ Advance(out, IF n > 0 THEN "a_weight_group" ELSE "a_build",
                             [loc EXCEPT !.material_index = m,
                                         !.bone_influence_count = n,
                                         !.i = 0])
                  /\ last_count' = <<pos + 4, n>>
                  /\ UNCHANGED warnings

\* Lines 233-234, 237: the non-empty names and the positive weights, in order.
NonEmpty(q) == SelectSeq(q, LAMBDA x : Len(x) > 0)
Positive(q) == SelectSeq(q, LAMBDA x : x > 0)

\* Lines 246-253: the j-th weight goes with the j-th name, for vertex i.
RECURSIVE PairWeights(_, _, _, _, _)
PairWeights(wg, bone_names, bone_weights, i, j) ==
    IF j > Len(bone_weights) THEN wg
    ELSE LET bone_name == bone_names[j]
             byWeight  == IF bone_name \in DOMAIN wg THEN wg[bone_name] ELSE <<>>
             verts     == IF bone_weights[j] \in DOMAIN byWeight
                          THEN byWeight[bone_weights[j]] ELSE <<>>
         IN  PairWeights(Put(wg, bone_name,
                             Put(byWeight, bone_weights[j], Append(verts, i))),
                         bone_names, bone_weights, i, j + 1)

\* Lines 224-253: one bone-influence group: four name blocks, four weights,
\* and the skipped parent indices, weight count and offset vectors.  More
\* positive weights than non-empty names raises IndexError.
load_elu_mesh_a_weight_group ==
    /\ pc = "a_weight_group"
    /\ \E group \in WeightGroups :
         LET plan == Rep(R(NAME_LENGTH), BONE_INFLUENCE_COUNT)
                     \o <<U(16), S(16), S(4)>> \o Rep(S(12), BONE_INFLUENCE_COUNT)
         IN  \E avail \in Avail(plan) :
             LET out  == Run(plan, avail)
                 blocks == [k \in 1..BONE_INFLUENCE_COUNT |->
                              SubSeq(NameBlock(group[1][k]), 1, out.got[k])]
                 bad  == {k \in 1..BONE_INFLUENCE_COUNT : ~IsAscii(blocks[k])}
                 bone_names == NonEmpty([k \in 1..BONE_INFLUENCE_COUNT |->
                                  elu_to_blender_name(rstrip(blocks[k]))[1]])
                 bone_weights == Positive(group[2])
                 l == [loc EXCEPT !.i = @ + 1, !.group = <<blocks, group[2]>>]
             IN  IF bad # {}
                 THEN Raise("UnicodeDecodeError",
                            Run(Rep(R(NAME_LENGTH),
                                    CHOOSE k \in bad : \A h \in bad : k <= h), avail))
                 ELSE IF out.raised THEN Raise("struct.error", out)
                 ELSE IF Len(bone_weights) > Len(bone_names)
                 THEN Raise("IndexError", out)
                 ELSE /\ Advance(out, IF l.i < l.bone_influence_count
                                      THEN "a_weight_group" ELSE "a_build",
                                 [l EXCEPT !.weight_groups =
                                     PairWeights(@, bone_names, bone_weights, loc.i, 1)])
                      /\ UNCHANGED <<warnings, last_count>>

\* Lines 257-259: whether the entry gets a mesh datablock.
HasMeshA(l, ms) ==
    l.mesh_name \notin MeshNames(ms) /\ l.vertices > 0 /\ Len(l.faces) > 0

\* Lines 261-284: the mesh datablock of a Format A entry.
MeshA(l) ==
    [name |-> l.mesh_name, is_bip |-> l.is_bip # 0,
     vertices |-> l.vertices, edges |-> 0, faces |-> Len(l.faces)]

\* Lines 338-378: the vertex groups of the object: cloth pinning and stiffness,
\* one per smoothing group in use, one per bone name.
GroupsA(l) ==
    (IF Len(l.vertex_colors) > 0
     THEN {<<"z_cloth_stiff">>}
          \cup (IF \E k \in 1..Len(l.vertex_colors) : l.vertex_colors[k][1] > 0
                THEN {<<"z_cloth_pin">>} ELSE {})
     ELSE {})
    \cup {<<"z_smooth", g>> : g \in DOMAIN l.smooth_groups}
    \cup {<<"bone", n>> : n \in DOMAIN l.weight_groups}

\* Lines 255-401: the mesh, or no mesh, and the object of the entry are made
\* in bpy.data and the object is linked to the scene.
load_elu_mesh_a_build ==
    /\ pc = "a_build"
    /\ LET real  == HasMeshA(loc, data_meshes)
           oname == UniqueName(loc.mesh_name, ObjectNames(data_objects))
           \* bpy.data.objects holds the new object when the parent name is
           \* looked up; an object named as its own parent is left to the
           \* host: it takes it or refuses it.
           parents ==
               IF loc.parent_mesh_name \notin ObjectNames(data_objects) \cup {oname}
               THEN {None}
               ELSE IF loc.parent_mesh_name = oname THEN {None, oname}
               ELSE {loc.parent_mesh_name}
       IN  \E par \in parents :
           LET obj == IF real
                      THEN [name |-> oname, type |-> "MESH", data |-> loc.mesh_name,
                            is_bip |-> loc.is_bip # 0, parent |-> par,
                            groups |-> GroupsA(loc)]
                      ELSE [name |-> oname, type |-> "EMPTY", data |-> None,
                            is_bip |-> FALSE, parent |-> par, groups |-> {}]
           IN  /\ data_meshes' = IF real THEN Append(data_meshes, MeshA(loc))
                                         ELSE data_meshes
               /\ data_objects' = Append(data_objects, obj)
               /\ scene_objects' = Append(scene_objects, oname)
               /\ load_elu_collect(obj)
               /\ UNCHANGED <<input_class, library, result, error, warnings, cursor,
                              header, edit_bones, last_count>>

---------------------------------------------------------------------------
(* load_elu after the mesh loop: the armature and the skin binding *)

\* names.index(x), and str(k) of a one-digit k
IndexOf(q, x) == (CHOOSE k \in 1..Len(q) : q[k] = x /\ \A h \in 1..(k - 1) : q[h] # x) - 1
StrOfInt(k) == <<48 + k>>

\* Lines 934 and 957: the bone's name is the object's name before 0x500E and
\* the object's position in names from then on.
BoneName(v, nms, oname) ==
    IF v < x500E THEN oname ELSE StrOfInt(IndexOf(nms, oname))

ARMATURE == <<65, 114, 109, 97, 116, 117, 114, 101>>

\* Lines 912-929: with a bone among the meshes an armature object is made.
load_elu_armature ==
    /\ pc = "resolve"
    /\ IF Len(bip_mesh_objects) > 0
       THEN LET aname == UniqueName(ARMATURE, ObjectNames(data_objects))
            IN  /\ data_objects' = Append(data_objects,
                       [name |-> aname, type |-> "ARMATURE", data |-> aname,
                        is_bip |-> FALSE, parent |-> None, groups |-> {}])
                /\ scene_objects' = Append(scene_objects, aname)
                /\ loop_i' = 0
                /\ pc' = "bone"
                /\ UNCHANGED <<result, data_meshes, edit_bones>>
       ELSE /\ pc' = "done"
            /\ result' = "FINISHED"
            /\ UNCHANGED <<loop_i, sink>>
    /\ UNCHANGED <<input_class, library, error, warnings, cursor, header, names,
                   bip_mesh_objects, z_mesh_objects, loc, last_count>>

BoneNames(bs) == {bs[k].name : k \in 1..Len(bs)}

AllChildren(os, p) == {k \in 1..Len(os) : os[k].parent = p}

\* Line 963: the children of object p that are bones.
BipChildren(os, p) ==
    {k \in 1..Len(os) : os[k].parent = p /\ os[k].is_bip}

\* Line 963: a child of p without mesh data (an Empty) has no bip_settings.
ChildWithoutData(os, p) ==
    \E k \in 1..Len(os) : os[k].parent = p /\ os[k].type = "EMPTY"

\* An exception while the armature is built.
RaiseInResolve(kind) ==
    /\ pc' = "done"
    /\ result' = "RAISED"
    /\ error' = kind
    /\ UNCHANGED <<input_class, library, warnings, cursor, header, driver, sink, loc,
                   last_count>>

\* Lines 931-966: the edit bone of one bone object.  A bone's head is the
\* world translation of its object; its tail is head + (0, 0.5, 0) ("offset")
\* until line 966 moves it to the head of a child.
load_elu_bone ==
    /\ pc = "bone"
    /\ LET b     == bip_mesh_objects[loop_i + 1]
           obj   == Lookup(data_objects, b)
           bname == UniqueName(BoneName(version, names, b), BoneNames(edit_bones))
           bone  == [name |-> bname, object |-> b, parent |-> None,
                     tail |-> <<"offset">>]
           bones == Append(edit_bones, bone)
           next  == IF loop_i + 1 < Len(bip_mesh_objects) THEN "bone" ELSE "skin"
       IN  IF obj.parent = None
           THEN /\ edit_bones' = bones
                /\ loop_i' = loop_i + 1
                /\ pc' = next
                /\ UNCHANGED <<input_class, library, result, error, warnings, cursor, header,
                               names, bip_mesh_objects, z_mesh_objects, loc,
                               last_count, data_meshes, data_objects, scene_objects>>
           ELSE
           LET par == Lookup(data_objects, obj.parent)
           IN  IF par.type # "MESH" THEN RaiseInResolve("AttributeError")
               ELSE IF ~par.is_bip
               THEN /\ edit_bones' = bones
                    /\ loop_i' = loop_i + 1
                    /\ pc' = next
                    /\ UNCHANGED <<input_class, library, result, error, warnings, cursor,
                                   header, names, bip_mesh_objects, z_mesh_objects,
                                   loc, last_count, data_meshes,
                                   data_objects, scene_objects>>
               ELSE IF version >= x500E /\ ~InSeq(par.name, names)
               THEN RaiseInResolve("ValueError")
               ELSE
               LET pname == BoneName(version, names, par.name)
               IN  IF pname \notin BoneNames(bones) THEN RaiseInResolve("KeyError")
                   ELSE IF ChildWithoutData(data_objects, par.name)
                   THEN RaiseInResolve("AttributeError")
                   ELSE
                   LET k      == CHOOSE k \in 1..Len(bones) : bones[k].name = pname
                       linked == [bones EXCEPT ![Len(bones)].parent = pname]
                       count  == Cardinality(BipChildren(data_objects, par.name))
                   IN  /\ edit_bones' =
                              IF count = 1
                              THEN [linked EXCEPT ![k].tail = <<"head", b>>]
                              ELSE linked
                       /\ loop_i' = loop_i + 1
                       /\ pc' = next
                       /\ UNCHANGED <<input_class, library, result, error, warnings, cursor,
                                      header, names, bip_mesh_objects,
                                      z_mesh_objects, loc, last_count,
                                      data_meshes, data_objects, scene_objects>>

\* Lines 970-976: a regular mesh object gets the armature modifier and, when
\* it has no parent, the armature object as its parent.
Skinned(o, zs, aname) ==
    IF InSeq(o.name, zs) /\ o.parent = None THEN [o EXCEPT !.parent = aname] ELSE o

\* Lines 968-978, and the return of load_from_path (lines 1002-1004).
load_elu_skin ==
    /\ pc = "skin"
    /\ LET aname == data_objects[CHOOSE k \in 1..Len(data_objects) :
                                   /\ data_objects[k].type = "ARMATURE"
                                   /\ \A h \in (k + 1)..Len(data_objects) :
                                          data_objects[h].type # "ARMATURE"].name
       IN  data_objects' = [k \in 1..Len(data_objects) |->
                               Skinned(data_objects[k], z_mesh_objects, aname)]
    /\ pc' = "done"
    /\ result' = "FINISHED"
    /\ UNCHANGED <<input_class, library, error, warnings, cursor, header, driver, loc,
                   last_count, data_meshes, scene_objects, edit_bones>>

---------------------------------------------------------------------------
(* elu_to_blender_name applied to a name, and again to what it returned *)

\* "Bip01", "Bip0", "Bip001", "bip01", "ZBip_", "ABip01" and no prefix
NamePrefixes ==
    { <<66, 105, 112, 48, 49>>, <<66, 105, 112, 48>>, <<66, 105, 112, 48, 48, 49>>,
      <<98, 105, 112, 48, 49>>, <<90, 66, 105, 112, 95>>,
      <<65, 66, 105, 112, 48, 49>>, <<>> }
\* space, "L", "a", "0", "1", "." and newline
TailBytes == {32, 76, 97, 48, 49, 46, 10}
Tails == UNION {[1..n -> TailBytes] : n \in 0..MaxTail}
ProbedNames == {p \o t : p \in NamePrefixes, t \in Tails}

\* Lines 85-107: the call elu_to_blender_name(name).
classify_name ==
    /\ pc = "classify"
    /\ pc' = "classify_again"
    /\ loc' = [loc EXCEPT !.first = elu_to_blender_name(loc.name)]
    /\ UNCHANGED <<input_class, library, result, error, warnings, cursor, header, driver,
                   sink, last_count>>

\* Lines 85-107: the call on the name the first call returned.
classify_again ==
    /\ pc = "classify_again"
    /\ pc' = "done"
    /\ result' = "FINISHED"
    /\ loc' = [loc EXCEPT !.second = elu_to_blender_name(loc.first[1])]
    /\ UNCHANGED <<input_class, library, error, warnings, cursor, header, driver,
                   sink, last_count>>

---------------------------------------------------------------------------
(* Specifications *)

InitClass(c) ==
    /\ input_class = c
    /\ pc = "load_from_path"
    /\ result = "RUNNING"
    /\ error = ""
    /\ warnings = <<>>
    /\ pos = 0
    /\ eof = FALSE
    /\ magic = 0
    /\ version = 0
    /\ material_count = 0
    /\ mesh_count = 0
    /\ loop_i = 0
    /\ loc = NoLocals
    /\ last_count = <<0, 0>>
    /\ data_meshes = <<>>
    /\ data_objects = <<>>
    /\ scene_objects = <<>>
    /\ names = <<>>
    /\ bip_mesh_objects = <<>>
    /\ z_mesh_objects = <<>>
    /\ edit_bones = <<>>
    /\ data_materials = <<>>
    /\ data_textures = <<>>
    /\ data_images = <<>>

NextDriver ==
    \/ load_from_path
    \/ load_elu
    \/ load_elu_armature
    \/ load_elu_bone
    \/ load_elu_skin

\* The steps of load_elu_mesh_b that every entry takes
NextMeshBFields ==
    \/ load_elu_mesh_b_names
    \/ load_elu_mesh_b_parent_index
    \/ load_elu_mesh_b_matrix
    \/ load_elu_mesh_b_positions
    \/ load_elu_mesh_b_normals
    \/ load_elu_mesh_b_reserved1
    \/ load_elu_mesh_b_reserved2
    \/ load_elu_mesh_b_texcoords
    \/ load_elu_mesh_b_reserved3
    \/ load_elu_mesh_b_groups
    \/ load_elu_mesh_b_reserved4
    \/ load_elu_mesh_b_blend_count
    \/ load_elu_mesh_b_reserved5
    \/ load_elu_mesh_b_vertex_count
    \/ load_elu_mesh_b_face_count
    \/ load_elu_mesh_b_trailer
    \/ load_elu_mesh_b_build

\* The loop bodies of the blend-vertex table
NextMeshBBlend ==
    \/ load_elu_mesh_b_blend_vertex
    \/ load_elu_mesh_b_influence

\* The loop bodies of the indexed-vertex table and of the face list
NextMeshBFaces ==
    \/ load_elu_mesh_b_vertex_index
    \/ load_elu_mesh_b_face

NextMeshB == NextMeshBFields \/ NextMeshBBlend \/ NextMeshBFaces

\* One Format B file of one mesh entry, with every pool and table populated.
InitB == InitClass("formatB")
NextB == NextDriver \/ NextMeshB
SpecB == InitB /\ [][NextB]_vars

\* One Format B file of one mesh entry whose blend-vertex table varies.
InitBlend == InitClass("blend")
NextBlend == NextDriver \/ NextMeshBFields \/ NextMeshBBlend
SpecBlend == InitBlend /\ [][NextBlend]_vars

\* Format B files of up to MaxMeshes named and parented mesh entries.
InitScene == InitClass("scene")
NextScene == NextDriver \/ NextMeshBFields \/ NextMeshBFaces
SpecScene == InitScene /\ [][NextScene]_vars

\* One Format A file of one mesh entry.
NextMeshA ==
    \/ load_elu_mesh_a_names
    \/ load_elu_mesh_a_matrix
    \/ load_elu_mesh_a_vertices
    \/ load_elu_mesh_a_face_count
    \/ load_elu_mesh_a_face
    \/ load_elu_mesh_a_normals
    \/ load_elu_mesh_a_material
    \/ load_elu_mesh_a_weight_group
    \/ load_elu_mesh_a_build
InitA == InitClass("formatA")
NextA == NextDriver \/ NextMeshA
SpecA == InitA /\ [][NextA]_vars

\* elu_to_blender_name on every probed name.
InitNames ==
    /\ input_class = "names"
    /\ pc = "classify"
    /\ result = "RUNNING"
    /\ error = ""
    /\ warnings = <<>>
    /\ pos = 0
    /\ eof = FALSE
    /\ magic = 0
    /\ version = 0
    /\ material_count = 0
    /\ mesh_count = 0
    /\ loop_i = 0
    /\ \E n \in ProbedNames : loc = [name |-> n, first |-> <<>>, second |-> <<>>]
    /\ last_count = <<0, 0>>
    /\ data_meshes = <<>>
    /\ data_objects = <<>>
    /\ scene_objects = <<>>
    /\ names = <<>>
    /\ bip_mesh_objects = <<>>
    /\ z_mesh_objects = <<>>
    /\ edit_bones = <<>>
    /\ data_materials = <<>>
    /\ data_textures = <<>>
    /\ data_images = <<>>
NextNames == classify_name \/ classify_again
SpecNames == InitNames /\ [][NextNames]_vars

\* Any header, and no entry after it.
InitHeader == InitClass("header")
NextHeader == load_from_path \/ load_elu \/ load_elu_armature
SpecHeader == InitHeader /\ [][NextHeader]_vars

\* Format B files of MaxMeshes + 1 mesh entries, bones and regular meshes.
InitSkeleton == InitClass("skeleton")
SpecSkeleton == InitSkeleton /\ [][NextScene]_vars

\* One Format B file of one mesh entry whose indexed vertices vary.
InitVertices == InitClass("vertices")
SpecVertices == InitVertices /\ [][NextScene]_vars

\* The material section of a Format A file.
NextMaterial ==
    \/ load_elu_material
    \/ load_elu_texture
    \/ load_elu_textured_material
InitMaterials == InitClass("materials")
NextMaterials == NextHeader \/ NextMaterial
SpecMaterials == InitMaterials /\ [][NextMaterials]_vars

\* Files of material entries and mesh entries, of either format.
InitPhases == InitClass("phases")
NextPhases ==
    NextDriver \/ NextMaterial \/ NextMeshA \/ NextMeshBFields \/ NextMeshBFaces
SpecPhases == InitPhases /\ [][NextPhases]_vars

---------------------------------------------------------------------------
(* Properties *)

Last(q) == q[Len(q)]

\* The 8-byte header was read and tested.
HeaderRead == pc # "load_from_path" /\ pos >= 8
Rejected == HeaderRead /\ result = "CANCELLED"

\* C1 (amended): once the header is read the file is accepted iff its magic is
\* 0x0107F060 and its version is one of the 16 tags; every other file is
\* rejected, and a rejection is the one result CANCELLED with the one message
\* 'File not supported', whichever of the two tests failed.
C1_HeaderAcceptedIffSupported ==
    HeaderRead =>
        /\ (result # "CANCELLED") <=> (magic = ELU_MAGIC /\ version \in ELU_VERSIONS)
        /\ result = "CANCELLED" => error = "File not supported"

\* C1: a file is rejected for its version alone.
C1_RejectedForVersion ==
    Rejected /\ magic = ELU_MAGIC /\ version \notin ELU_VERSIONS

\* C1 (as stated): a rejection tells which test failed: BadMagic for a magic
\* that does not match, whatever the version, and UnsupportedVersion otherwise.
C1_RejectionNamesItsCause ==
    Rejected => error = IF magic # ELU_MAGIC THEN "BadMagic" ELSE "UnsupportedVersion"

\* C2: when the magic or the version fails the header test, the run is over
\* with the cursor right after the 8-byte header, the end of the data never
\* met, nothing decoded and nothing in bpy.data or the scene.
C2_NothingAfterFailedHeader ==
    (HeaderRead /\ (magic # ELU_MAGIC \/ version \notin ELU_VERSIONS)) =>
        /\ pc = "done" /\ pos = 8 /\ ~eof
        /\ material_count = 0 /\ mesh_count = 0 /\ loop_i = 0 /\ names = <<>>
        /\ data_meshes = <<>> /\ data_objects = <<>>
        /\ scene_objects = <<>> /\ edit_bones = <<>>

\* C2: a file is rejected for its magic, with a version that is supported.
C2_RejectedForMagic ==
    Rejected /\ magic # ELU_MAGIC /\ version \in ELU_VERSIONS /\ pc = "done"

\* C3 (as stated): when the decode aborts with an exception, bpy.data and the
\* scene hold nothing of the entries decoded before it.
C3_NoPartialScene ==
    result = "RAISED" =>
        data_meshes = <<>> /\ data_objects = <<>> /\ scene_objects = <<>>

\* C4 (as stated): a decode never finishes after a read or a skip that asked
\* for more bytes than the data held.
C4_TruncationAlwaysFatal ==
    result = "FINISHED" => ~eof

\* C5: when the texcoord count is about to be read, the cursor is right after
\* the second reserved count for a version above 0x500E, and 12 bytes per
\* counted entry further for a version up to 0x500E; for a nonzero count above
\* 0x500E the last warning logged is the one of this count field.
C5_SecondReservedCount ==
    pc = "b_texcoords" =>
        /\ pos = last_count[1] + 4
                 + (IF version > x500E THEN 0 ELSE 12 * last_count[2])
        /\ (version > x500E /\ last_count[2] # 0) =>
               (warnings # <<>> /\ Last(warnings) = last_count[1] + 4)

\* C5: a nonzero second reserved count above 0x500E was passed over.
C5_AnomalyPassed ==
    pc = "b_texcoords" /\ version > x500E /\ last_count[2] # 0 /\ ~eof

\* C6 (amended): a nonzero blend-vertex count, or a nonzero count of the
\* reserved table after it, in a version below 0x500E is forced to 0: the
\* decode goes on right after the count field and a warning is logged; the
\* run's result stays the one of any run, and a run that completes returns
\* FINISHED whether or not it logged warnings.
C6_AnomalyLoggedNotReturned ==
    /\ (version < x500E /\ last_count[2] # 0
            /\ (pc = "b_vertex_count"
                  \/ (pc = "b_reserved5" /\ loc.blend_vertex_count = 0)))
         => (/\ pos = last_count[1] + 4
             /\ warnings # <<>> /\ Last(warnings) = last_count[1] + 4
             /\ result = "RUNNING")
    /\ (pc = "done" /\ result \notin {"RAISED", "CANCELLED"}) => result = "FINISHED"

\* C6: a decode that forced a count to 0 has completed.
C6_FinishedWithWarning ==
    pc = "done" /\ result = "FINISHED" /\ warnings # <<>> /\ version < x500E

\* C6 (as stated): the result of a completed decode that forced a count to 0
\* differs from FINISHED, the result of a clean decode.
C6_ResultCarriesWarning ==
    (pc = "done" /\ warnings # <<>>) => result # "FINISHED"

\* The entry being built has zero positions or zero faces.
NoGeometry(l) == l.vertex_positions = 0 \/ Len(l.faces) = 0
IsPlaceholder(m) == m.is_bip /\ m.vertices = 8 /\ m.edges = 12 /\ m.faces = 0
IsRealMesh(m) == ~m.is_bip /\ m.vertices > 0 /\ m.faces > 0

\* What C7 asks of the mesh m made for the entry with locals l.
MeshOfEntry(m, l) ==
    /\ m.name = l.mesh_name
    /\ NoGeometry(l) => IsPlaceholder(m)
    /\ ~NoGeometry(l) =>
           (IsRealMesh(m) /\ m.vertices = l.vertex_positions /\ m.faces = Len(l.faces))

InMap(bi, b, w, i) ==
    b \in DOMAIN bi /\ w \in DOMAIN bi[b] /\ InSeq(i, bi[b][w])

ObjectBuiltB == pc = "b_build" /\ Len(data_objects') = Len(data_objects) + 1

Rotated(idx, q) == IF idx[3] = 0 THEN <<q[3], q[1], q[2]>> ELSE <<q[1], q[2], q[3]>>

BipPrefixed(n) ==
    /\ Len(n) >= 5
    /\ SubSeq(n, 1, 3) = <<66, 105, 112>>
    /\ n[4] \in 48..57 /\ n[5] \in 48..57

\* C11: elu_to_blender_name returns a (name, count) pair with count 0 or 1 for
\* every name; a name that was not substituted (count 0), as every name that
\* does not begin with "Bip" and two digits, comes back unchanged; and the
\* call on a returned name returns it unchanged with count 0.
C11_ClassifyIdempotent ==
    /\ (input_class = "names" /\ pc \in {"classify_again", "done"}) =>
           /\ loc.first[2] \in {0, 1}
           /\ loc.first[2] = 0 => loc.first[1] = loc.name
           /\ ~BipPrefixed(loc.name) => loc.first = <<loc.name, 0>>
           /\ loc.first[2] = 1 =>
                  (BipPrefixed(loc.name)
                     /\ SubSeq(loc.first[1], 1, 5) = <<90, 66, 105, 112, 95>>)
    /\ (input_class = "names" /\ pc = "done") => loc.second = <<loc.first[1], 0>>

\* C11: a bone name with a side, a name and an index was classified twice.
C11_BoneNameClassifiedTwice ==
    /\ input_class = "names" /\ pc = "done"
    /\ loc.name = <<66, 105, 112, 48, 49, 76, 97, 49>>
    /\ loc.first = << <<90, 66, 105, 112, 95, 97, 46, 76, 46, 48, 48, 49>>, 1 >>


\* The step that ends a textured-material entry without an exception.
EntryEnds == pc = "material_slot" /\ result' = "RUNNING"

\* C12 (as the code has it): across the decode of a textured-material entry
\* whose derived name already exists, no material is added and the existing
\* one keeps its colors and its specular power, and its texture slots grow by
\* exactly one slot, bound to the texture of the entry; every other material
\* is unchanged.
C12_ExistingKeepsColorsGainsSlot ==
    [][ /\ (pc = "material" /\ pc' = "texture" /\ loc'.found)
            => data_materials' = data_materials
        /\ (EntryEnds /\ loc.found)
            => /\ Len(data_materials') = Len(data_materials)
               /\ \A k \in 1..Len(data_materials) :
                     IF data_materials[k].name = loc.material
                     THEN data_materials'[k] =
                            [data_materials[k] EXCEPT
                               !.texture_slots = Append(@, loc.texture)]
                     ELSE data_materials'[k] = data_materials[k] ]_vars

\* C12 witness: the second entry of one derived name was decoded to its end,
\* with other colors than the first, and the run finished.
C12_SameNameTwice ==
    /\ result = "FINISHED"
    /\ material_count = 2
    /\ Len(data_materials) = 1
    /\ Len(data_materials[1].texture_slots) = 2

\* C12 (as stated): the decode of an entry whose derived name already exists
\* leaves the existing material completely unchanged, its texture slots too.
C12_ExistingUnchanged ==
    [][ (EntryEnds /\ loc.found) => data_materials' = data_materials ]_vars

\* The step of load_elu_texture on data that does not end inside the two name
\* blocks.
TextureRead == pc = "texture" /\ pc' # "texture" /\ ~eof'

\* C14 (as the code has it): load_elu_texture consumes two names of 40 bytes
\* each for the versions below 0x5006 (0x11, 0x5001..0x5005) and two names of
\* 256 bytes each for 0x5006 and 0x5007, the second name too, and also when a
\* name fails to decode; on data that ends inside the two names it consumes
\* what is left.
C14_TextureNameLength ==
    [][ /\ TextureRead
            => pos' - pos = IF version < x5006 THEN 2 * NAME_LENGTH
                            ELSE 2 * PATH_LENGTH
        /\ (pc = "texture" /\ pc' # "texture" /\ eof')
            => pos' - pos < 2 * PATH_LENGTH ]_vars

\* C14 witness: the first texture of a file of version 0x5006 was read whole:
\* 16 bytes of headers, 64 of the material, 512 of the two names.
C14_LongNamesAt5006 ==
    /\ pc = "material_slot"
    /\ version = x5006
    /\ ~eof
    /\ loop_i = 0
    /\ pos = 16 + 64 + 2 * PATH_LENGTH

\* C14 (as stated): the names are 40 bytes each for every version up to
\* 0x5006 and 256 bytes each for 0x5007.
C14_ShortNamesThrough5006 ==
    [][ TextureRead
          => pos' - pos = IF version <= x5006 THEN 2 * NAME_LENGTH
                          ELSE 2 * PATH_LENGTH ]_vars

\* The phases of load_elu, by the position of the run.
MaterialPcs == {"material", "texture", "material_slot"}
FormatAPcs ==
    {"a_names", "a_matrix", "a_vertices", "a_face_count", "a_face", "a_normals",
     "a_material", "a_weight_group", "a_build"}
FormatBPcs ==
    {"b_names", "b_parent_index", "b_matrix", "b_positions", "b_normals",
     "b_reserved1", "b_reserved2", "b_texcoords", "b_reserved3", "b_groups",
     "b_reserved4", "b_blend_count", "b_blend_vertex", "b_influence",
     "b_reserved5", "b_vertex_count", "b_vertex_index", "b_face_count",
     "b_face", "b_trailer", "b_build"}
Phase(p) ==
    CASE p \in {"load_from_path", "load_elu"} -> 0
      [] p \in MaterialPcs -> 1
      [] p \in FormatAPcs \cup FormatBPcs -> 2
      [] p \in {"resolve", "bone", "skin"} -> 3
      [] OTHER -> 4

\* C13: after the header check the phases follow one another in the order
\* header, material section, mesh section, resolution, done, and none is
\* entered again.  Material entries are decoded only for a version below
\* 0x5008 and a positive material_count, before any mesh entry, and the
\* section is left without an exception only after material_count entries;
\* for a version from 0x5008 on none is decoded whatever material_count is.
\* Mesh entries are decoded by Format A iff the version is below 0x5008, and
\* resolution begins only after mesh_count entries, or at once when mesh_count
\* is 0.  A phase before resolution ends the run only by an exception.
C13_PhaseOrder ==
    /\ [](/\ pc \in MaterialPcs
              => /\ version < x5008
                 /\ loop_i < material_count
                 /\ data_meshes = <<>> /\ data_objects = <<>> /\ names = <<>>
          /\ pc \in FormatAPcs => version < x5008 /\ loop_i < mesh_count
          /\ pc \in FormatBPcs => version >= x5008 /\ loop_i < mesh_count)
    /\ [][ /\ Phase(pc') >= Phase(pc)
           /\ (pc = "load_elu" /\ Phase(pc') = 1)
                => version < x5008 /\ material_count' > 0 /\ loop_i' = 0
           /\ (pc = "load_elu" /\ Phase(pc') \in {2, 3})
                => material_count' = 0 \/ version >= x5008
           /\ (Phase(pc) = 1 /\ Phase(pc') = 1)
                => loop_i' = IF pc = "material_slot" THEN loop_i + 1 ELSE loop_i
           /\ (Phase(pc) = 1 /\ Phase(pc') \in {2, 3})
                => pc = "material_slot" /\ loop_i + 1 = material_count
           /\ (Phase(pc) < 2 /\ Phase(pc') = 2) => loop_i' = 0
           /\ (Phase(pc) < 2 /\ Phase(pc') = 3) => mesh_count' = 0
           /\ (Phase(pc) = 2 /\ Phase(pc') = 2)
                => loop_i' = IF pc \in {"a_build", "b_build"} /\ pc' # pc
                             THEN loop_i + 1 ELSE loop_i
           /\ (Phase(pc) = 2 /\ Phase(pc') = 3)
                => pc \in {"a_build", "b_build"} /\ loop_i + 1 = mesh_count
           /\ (pc # "load_from_path" /\ Phase(pc) < 3 /\ Phase(pc') = 4)
                => result' = "RAISED" ]_vars

\* C13 witness: a Format A file of two material entries and two mesh entries,
\* one of them a bone, went through every phase to the end.
C13_AllPhasesPassed ==
    /\ result = "FINISHED"
    /\ version = x5007
    /\ material_count = 2 /\ Len(data_materials[1].texture_slots) = 2
    /\ mesh_count = 2 /\ Len(names) = 2
    /\ edit_bones # <<>>

\* The bytes of a block before its first NUL.
UpToNul(s) ==
    SubSeq(s, 1, (CHOOSE k \in 1..(Len(s) + 1) :
                      /\ k = Len(s) + 1 \/ s[k] = NUL
                      /\ \A h \in 1..(k - 1) : s[h] # NUL) - 1)

\* C15 (as stated): once the two name blocks of a mesh entry are decoded, each
\* name is made of the bytes of its block before the first NUL, which are
\* ASCII, and of nothing that follows that NUL.
C15_TrimmedAtFirstNul ==
    pc \in {"a_matrix", "b_parent_index"}
      => /\ IsAscii(UpToNul(loc.name))
         /\ IsAscii(UpToNul(loc.parent_name))
         /\ loc.mesh_name = elu_to_blender_name(UpToNul(loc.name))[1]
         /\ loc.parent_mesh_name = elu_to_blender_name(UpToNul(loc.parent_name))[1]

\* The field of an indexed-vertex entry, as read, that holds its texcoord
\* index.
TexcoordField(f) == IF version = x500E THEN f[5] ELSE f[3]

\* C16: an entry of the indexed-vertex table of a Format B mesh takes 10 bytes
\* for a version below 0x500E and 12 bytes from 0x500E on; its position and
\* normal indices are its first and second fields, and its texcoord index is
\* its third field, except at 0x500E where it is the fifth; the corners of a
\* face get the indices of table entries so decoded, so that at 0x500E no
\* corner has its texcoord index from the third field.
C16_IndexedVertexLayout ==
    [][ /\ (pc = "b_vertex_index" /\ result' = "RUNNING")
            => /\ pos' - pos = IF version < x500E THEN 10 ELSE 12
               /\ Len(loc'.vertex_indices) = Len(loc.vertex_indices) + 1
               /\ Len(loc'.vertex_fields) = Len(loc'.vertex_indices)
               /\ LET f == Last(loc'.vertex_fields)
                      e == Last(loc'.vertex_indices)
                  IN  e[1] = f[1] /\ e[2] = f[2] /\ e[3] = TexcoordField(f)
        /\ (pc = "b_face" /\ result' = "RUNNING")
            => LET face == Last(loc'.faces)
               IN  \A k \in 1..FACE_VERTEX_COUNT :
                     \E y \in 1..Len(loc.vertex_fields) :
                        /\ face[1][k] = loc.vertex_fields[y][1]
                        /\ face[2][k] = loc.vertex_fields[y][2]
                        /\ face[3][k] = TexcoordField(loc.vertex_fields[y]) ]_vars

\* C16 witness: at 0x500E a face was resolved through an entry whose third
\* field is 5 and whose fifth field is 0, and its corners have texcoord 0.
C16_FaceAt500E ==
    /\ version = x500E
    /\ pc = "b_trailer"
    /\ loc.vertex_fields = << <<0, 0, 5, 0, 0>> >>
    /\ loc.faces = << << <<0, 0, 0>>, <<0, 0, 0>>, <<0, 0, 0>> >> >>

\* The objects that are bone meshes and children of the object named o.
BoneChildrenOf(o) ==
    {c \in ObjectNames(data_objects) :
        LET child == Lookup(data_objects, c)
        IN  child.type = "MESH" /\ child.is_bip /\ child.parent = o}

\* C17: once the armature is built, the joint of a bone mesh with exactly one
\* child that is a bone mesh has its tail at the head of that child's joint,
\* and the joint of a bone mesh with no or several such children has its tail
\* at its head plus (0, 0.5, 0); the parent of a joint is the joint of the
\* parent of its mesh when that parent is a bone mesh, and no joint otherwise.
C17_TailRule ==
    (result = "FINISHED" /\ edit_bones # <<>>)
      => \A j \in 1..Len(edit_bones) :
           LET bone == edit_bones[j]
               obj  == Lookup(data_objects, bone.object)
               kids == BoneChildrenOf(bone.object)
           IN  /\ bone.tail = IF Cardinality(kids) = 1
                               THEN <<"head", CHOOSE c \in kids : TRUE>>
                               ELSE <<"offset">>
               /\ IF obj.parent # None /\ Lookup(data_objects, obj.parent).is_bip
                  THEN \E h \in 1..Len(edit_bones) :
                         /\ edit_bones[h].object = obj.parent
                         /\ bone.parent = edit_bones[h].name
                  ELSE bone.parent = None

\* C17 witness: the bone mesh "A" has a regular child decoded first and one
\* bone child decoded after it, and the run finished.
C17_OneBoneChildAmongTwo ==
    /\ result = "FINISHED"
    /\ Len(edit_bones) = 2
    /\ Len(data_objects) = 4
    /\ data_objects[1].is_bip
    /\ ~data_objects[2].is_bip /\ data_objects[2].parent = data_objects[1].name
    /\ data_objects[3].is_bip /\ data_objects[3].parent = data_objects[1].name
    /\ edit_bones[1].tail = <<"head", data_objects[3].name>>

\* Vertex i is recorded under bone name n and weight w.
RecordedUnder(wg, n, w, i) ==
    n \in DOMAIN wg /\ w \in DOMAIN wg[n] /\ InSeq(i, wg[n][w])

\* C18 (as stated): the decode of a bone-influence group never ends with an
\* IndexError, and it records the vertex of the group under the bone name and
\* the weight of one slot, for exactly the slots whose name is not empty and
\* whose weight is positive.
C18_PairedBySlot ==
    [][ pc = "a_weight_group"
          => /\ error' # "IndexError"
             /\ result' = "RUNNING"
                  => LET slot_names ==
                           [j \in 1..BONE_INFLUENCE_COUNT |->
                              elu_to_blender_name(rstrip(loc'.group[1][j]))[1]]
                         weights == loc'.group[2]
                         wg == loc'.weight_groups
                     IN  \A n \in DOMAIN wg \cup {slot_names[j] : j \in 1..BONE_INFLUENCE_COUNT},
                            w \in {weights[j] : j \in 1..BONE_INFLUENCE_COUNT} :
                            RecordedUnder(wg, n, w, loc.i)
                              <=> \E j \in 1..BONE_INFLUENCE_COUNT :
                                     /\ slot_names[j] = n /\ n # <<>>
                                     /\ weights[j] = w /\ w > 0 ]_vars

\* C19 (as stated): from 0x500E on, a bone mesh is entered in the name list
\* at the position its entry has in the file (loop_i, counted from 0), and its
\* joint is named with the decimal of its position in the name list, so that
\* the joint named str(k) is the joint of the k-th mesh entry.
C19_JointNamedByFilePosition ==
    [][ /\ (pc = "b_build" /\ version >= x500E
             /\ bip_mesh_objects' # bip_mesh_objects)
            => /\ names' = Append(names, Last(bip_mesh_objects'))
               /\ IndexOf(names', Last(bip_mesh_objects')) = loop_i
        /\ (pc = "bone" /\ version >= x500E /\ edit_bones' # edit_bones)
            => Last(edit_bones').name =
                 StrOfInt(IndexOf(names, Last(edit_bones').object)) ]_vars


====
